---- MODULE Spec2Model ----
(***************************************************************************)
(* Model of the selector resolution engine of space-command and of its TLE *)
(* store: space/tle/db.py (TleDb, TleModel) and space/sat.py (Request,     *)
(* SatModel, Alias, Sat._from_request, sync).                              *)
(*                                                                         *)
(* Text is a sequence of one-character strings, so that the regular        *)
(* expressions and the splits of Request.from_text are computed on the     *)
(* characters.  Dates and epochs are integers (a position on the time      *)
(* axis).                                                                  *)
(***************************************************************************)
EXTENDS Integers, Sequences, FiniteSets, TLC

VARIABLES
    tledb,      \* rows of the TleModel table (space.db)
    sats,       \* rows of the SatModel table, in the order of their creation
    aliases,    \* rows of the Alias table
    call,       \* the text and the overrides Request.from_text is called with
    archive,    \* the folders, the files and the tags of the CCSDS archive (satdb)
    procs,      \* what is in flight: the fetch tasks, the open transaction
    last        \* the last call made and what it gave back

vars == <<tledb, sats, aliases, call, archive, procs, last>>

\* nothing in flight
NoProcs == <<>>

\* Greatest epoch of the TLEs that can be fed to the store.
MaxEpoch == 2
\* Greatest number of TLEs in one text given to TleDb.insert.
MaxTles == 2

-----------------------------------------------------------------------------
(* Character strings *)

ISS == <<"I", "S", "S">>
OBJ == <<"O", "B", "J">>
XMM == <<"X", "M", "M">>
N25544 == <<"2", "5", "5", "4", "4">>
N43013 == <<"4", "3", "0", "1", "3">>
N99999 == <<"9", "9", "9", "9", "9">>
C1998 == <<"1", "9", "9", "8", "-", "0", "6", "7", "A">>
C2017 == <<"2", "0", "1", "7", "-", "0", "8", "3", "A">>
C2017B == <<"2", "0", "1", "7", "-", "0", "8", "3", "B">>
TLE == <<"t", "l", "e">>

Digits == {"0", "1", "2", "3", "4", "5", "6", "7", "8", "9"}

DigitVal(c) ==
    CASE c = "0" -> 0 [] c = "1" -> 1 [] c = "2" -> 2 [] c = "3" -> 3
      [] c = "4" -> 4 [] c = "5" -> 5 [] c = "6" -> 6 [] c = "7" -> 7
      [] c = "8" -> 8 [] c = "9" -> 9

IsDigits(s) == Len(s) > 0 /\ \A i \in 1..Len(s) : s[i] \in Digits

\* int(s) for a string of decimal digits
RECURSIVE IntOf(_)
IntOf(s) ==
    IF Len(s) = 0 THEN 0
    ELSE 10 * IntOf(SubSeq(s, 1, Len(s) - 1)) + DigitVal(s[Len(s)])

UpperCase ==
    <<"A", "B", "C", "D", "E", "F", "G", "H", "I", "J", "K", "L", "M",
      "N", "O", "P", "Q", "R", "S", "T", "U", "V", "W", "X", "Y", "Z">>

LowerCase ==
    <<"a", "b", "c", "d", "e", "f", "g", "h", "i", "j", "k", "l", "m",
      "n", "o", "p", "q", "r", "s", "t", "u", "v", "w", "x", "y", "z">>

\* str.lower() of one character
Lower(c) ==
    IF \E i \in 1..26 : UpperCase[i] = c
    THEN LowerCase[CHOOSE i \in 1..26 : UpperCase[i] = c]
    ELSE c

LowerStr(s) == [i \in 1..Len(s) |-> Lower(s[i])]

\* SQL LIKE '%needle%', which sqlite evaluates without regard to ASCII case
Contains(hay, needle) ==
    \E i \in 0..(Len(hay) - Len(needle)) :
        LowerStr(SubSeq(hay, i + 1, i + Len(needle))) = LowerStr(needle)

Range(s) == {s[i] : i \in 1..Len(s)}

-----------------------------------------------------------------------------
(* The TLEs that can be given to the store.  What Tle.from_string (beyond) *)
(* reads from a two-line block is a record of these fields; the names and  *)
(* the COSPAR ids of the rows are TLA+ strings, Chars gives their          *)
(* characters.                                                             *)

Chars(s) ==
    CASE s = "ISS" -> ISS
      [] s = "OBJ" -> OBJ
      [] s = "1998-067A" -> C1998
      [] s = "2017-083A" -> C2017
      [] s = "2017-083B" -> C2017B
      [] s = "XMM" -> XMM
      [] s = "25544" -> N25544
      [] s = "43013" -> N43013

\* the string of a sequence of characters
Str(chars) == CHOOSE s \in {"ISS", "OBJ", "1998-067A", "2017-083A", "2017-083B", "XMM",
                              "25544", "43013"} :
                Chars(s) = chars

NoradIds == {25544, 43013}

NoradStr(n) == IF n = 25544 THEN N25544 ELSE N43013

CosparOf(n) == IF n = 25544 THEN "1998-067A" ELSE "2017-083A"

\* 25544 is catalogued as OBJ in its first TLE and as ISS afterwards;
\* 43013 bears the name OBJ in all of its TLEs.
NameOf(n, e) == IF n = 25544 /\ e > 1 THEN "ISS" ELSE "OBJ"

EpochStr(e) ==
    <<"1", "8", "0", "0">> \o
    <<CASE e = 0 -> "0" [] e = 1 -> "1" [] e = 2 -> "2" [] e = 3 -> "3"
        [] e = 4 -> "4" [] OTHER -> "9">>

Tle(n, e) ==
    [norad_id |-> n, cospar_id |-> CosparOf(n), name |-> NameOf(n, e), epoch |-> e]

\* TleModel.data, the text of the two lines: it holds the catalog number
\* and the epoch
DataOf(r) == NoradStr(r.norad_id) \o <<"U", " ">> \o EpochStr(r.epoch)

TleUniverse == {Tle(n, e) : n \in NoradIds, e \in 1..MaxEpoch}

Texts == UNION {[1..k -> TleUniverse] : k \in 0..MaxTles}

SingleTexts == UNION {[1..k -> TleUniverse] : k \in 0..1}

Key(r) == <<r.norad_id, r.epoch>>

-----------------------------------------------------------------------------
(* TleDb.insert *)

\* Stored, the epoch of the TLE shifted before it is compared
StoredShifted(db, tle) == \E r \in db : Key(r) = <<tle.norad_id, tle.epoch + 1>>

\* self.model.get(norad_id == tle.norad_id, epoch == tle.epoch.datetime)
Stored(db, tle) == \E r \in db : Key(r) = Key(tle)

\* the loop of insert: the TLEs of the text that have no row yet, in order
RECURSIVE Entities(_, _)
Entities(db, tles) ==
    IF Len(tles) = 0 THEN <<>>
    ELSE IF Stored(db, Head(tles)) THEN Entities(db, Tail(tles))
    ELSE <<Head(tles)>> \o Entities(db, Tail(tles))

\* UniqueIndexViolated, the table left without its unique index
NoUniqueIndex(db, entities) == FALSE

\* the unique index on (norad_id, epoch) that insert_many runs into
UniqueIndexViolated(db, entities) ==
    \/ \E i, j \in 1..Len(entities) : i # j /\ Key(entities[i]) = Key(entities[j])
    \/ \E i \in 1..Len(entities) : Stored(db, entities[i])

\* the outcome of db.insert(tles): the table, the error raised and the two
\* numbers of the closing log line
InsertOutcome(db, tles) ==
    LET entities == Entities(db, tles) IN
    IF Len(entities) > 0
    THEN IF UniqueIndexViolated(db, entities)
         THEN [db |-> db, err |-> "IntegrityError", inserted |-> 0, total |-> 0]
         ELSE [db |-> db \cup Range(entities), err |-> "none",
               inserted |-> Len(entities), total |-> Len(tles)]
    ELSE IF Len(tles) = 0
         THEN [db |-> db, err |-> "ValueError", inserted |-> 0, total |-> 0]
         ELSE [db |-> db, err |-> "none", inserted |-> 0, total |-> Len(tles)]

Insert(tles) ==
    \E o \in {InsertOutcome(tledb, tles)} :
    /\ tledb' = o.db
    /\ last' = [op |-> "insert", text |-> tles, err |-> o.err,
                inserted |-> o.inserted, total |-> o.total,
                before |-> tledb,
                repeat |-> (last.op = "insert" /\ last.text = tles)]
    /\ UNCHANGED <<sats, aliases, call, archive, procs>>

-----------------------------------------------------------------------------
(* Queries of the TLE store.  A filter is one keyword argument, the field  *)
(* and the value it must equal; an optional argument left to None is the   *)
(* empty set, one that is given is a singleton.                            *)

\* .filter(**{field: value}) on TleModel; IntegerField adapts the value
\* with int()
Matches(r, field, value) ==
    CASE field = "norad_id" -> IsDigits(value) /\ r.norad_id = IntOf(value)
      [] field = "cospar_id" -> Chars(r.cospar_id) = value
      [] field = "name" -> Chars(r.name) = value

Filtered(db, field, value) == {r \in db : Matches(r, field, value)}

\* DatedRows, the two comparisons strict
DatedRowsStrict(db, limit, date, field, value) ==
    {r \in Filtered(db, field, value) :
        IF limit = "after" THEN r.epoch > date ELSE r.epoch < date}

\* the rows of get_dated's query: epoch >= date when limit is "after",
\* epoch <= date otherwise
DatedRows(db, limit, date, field, value) ==
    {r \in Filtered(db, field, value) :
        IF limit = "after" THEN r.epoch >= date ELSE r.epoch <= date}

\* the rows .get() can return: the first of the ordering, ascending for
\* "after" and descending otherwise
DatedFirst(rows, limit) ==
    {r \in rows : \A q \in rows :
        IF limit = "after" THEN r.epoch <= q.epoch ELSE r.epoch >= q.epoch}

\* the error get_dated ends with when its query has no row: the handler of
\* DoesNotExist raises TleNotFound "from e", and no e is bound there
GetDatedMissing == "NameError"

GetDated(limit, date, field, value) ==
    LET rows == DatedRows(tledb, limit, date, field, value) IN
    /\ \/ /\ rows = {}
          /\ last' = [op |-> "get_dated", limit |-> limit, date |-> date,
                      field |-> field, value |-> value,
                      err |-> GetDatedMissing, out |-> {}]
       \/ \E r \in DatedFirst(rows, limit) :
            last' = [op |-> "get_dated", limit |-> limit, date |-> date,
                     field |-> field, value |-> value,
                     err |-> "none", out |-> {r}]
    /\ UNCHANGED <<tledb, sats, aliases, call, archive, procs>>

\* HistoryRows, the window left out
HistoryRowsUnwindowed(db, field, value, start, stop) == Filtered(db, field, value)

\* the rows of history's query, the window applied
HistoryRows(db, field, value, start, stop) ==
    {r \in Filtered(db, field, value) :
        /\ \A d \in start : r.epoch >= d
        /\ \A d \in stop : r.epoch <= d}

\* the orderings ORDER BY epoch can give a set of rows
ByEpoch(rows) ==
    {s \in [1..Cardinality(rows) -> rows] :
        /\ Range(s) = rows
        /\ \A i, j \in 1..Len(s) : i < j => s[i].epoch <= s[j].epoch}

\* s[:number] of Python, the slice taken from the wrong end
FirstN(s, number) ==
    IF number = 0 \/ number >= Len(s) THEN s ELSE SubSeq(s, 1, number)

\* s[-number:] of Python
LastN(s, number) ==
    IF number = 0 \/ number >= Len(s) THEN s
    ELSE SubSeq(s, Len(s) - number + 1, Len(s))

\* history(number=, start=, stop=, **{field: value}): the error raised and
\* the TLEs yielded
HistoryOutcomes(db, field, value, number, start, stop) ==
    LET rows == HistoryRows(db, field, value, start, stop)
        n == IF number = {} THEN 0 ELSE CHOOSE k \in number : TRUE
    IN  IF rows = {}
        THEN {[err |-> "TleNotFound", out |-> <<>>]}
        ELSE {[err |-> "none", out |-> LastN(s, n)] : s \in ByEpoch(rows)}

History(field, value, number, start, stop) ==
    /\ \E o \in HistoryOutcomes(tledb, field, value, number, start, stop) :
         last' = [op |-> "history", field |-> field, value |-> value,
                  number |-> number, start |-> start, stop |-> stop,
                  err |-> o.err, out |-> o.out]
    /\ UNCHANGED <<tledb, sats, aliases, call, archive, procs>>

\* SELECT * ... GROUP BY norad_id: one row for each norad_id, its columns
\* being those of a row of the group that the engine chooses
GroupByNorad(rows) ==
    {pick \in SUBSET rows :
        \A r \in rows : Cardinality({q \in pick : q.norad_id = r.norad_id}) = 1}

\* dump(all): the TLEs yielded
DumpOutcomes(db, all) == IF all THEN {db} ELSE GroupByNorad(db)

Dump(all) ==
    /\ \E out \in DumpOutcomes(tledb, all) :
         last' = [op |-> "dump", all |-> all, err |-> "none", out |-> out]
    /\ UNCHANGED <<tledb, sats, aliases, call, archive, procs>>

\* the rows of find's query: data or name contains the text
FindRows(db, txt) == {r \in db : Contains(DataOf(r), txt) \/ Contains(Chars(r.name), txt)}

Find(txt) ==
    /\ \E out \in GroupByNorad(FindRows(tledb, txt)) :
         last' = [op |-> "find", txt |-> txt,
                  err |-> IF out = {} THEN "TleNotFound" ELSE "none",
                  out |-> out]
    /\ UNCHANGED <<tledb, sats, aliases, call, archive, procs>>

-----------------------------------------------------------------------------
(* Request.from_text *)

Delimiters == {"@", "~", "^", "?", "$"}

Alnum == Digits \cup Range(UpperCase) \cup Range(LowerCase)

DateChars == Digits \cup {"-", "T", ":", "."}

NameKey == <<"n", "a", "m", "e">>
NoradKey == <<"n", "o", "r", "a", "d">>
CosparKey == <<"c", "o", "s", "p", "a", "r">>
IdSuffix == <<"_", "i", "d">>
NoradIdEq == NoradKey \o IdSuffix \o <<"=">>
OEM == <<"o", "e", "m">>
OPM == <<"o", "p", "m">>

\* the config's default-orbit-type, and its fallback
DefaultSrc == TLE

\* re.split(delimiters, txt)[0]
SelectorStr(txt) ==
    LET cut == {i \in 1..Len(txt) : txt[i] \in Delimiters}
    IN  IF cut = {} THEN txt
        ELSE SubSeq(txt, 1, (CHOOSE i \in cut : \A j \in cut : i <= j) - 1)

\* s.split("="), as the sequence of its parts
RECURSIVE SplitEq(_)
SplitEq(s) ==
    LET eqs == {i \in 1..Len(s) : s[i] = "="}
    IN  IF eqs = {} THEN <<s>>
        ELSE LET i == CHOOSE k \in eqs : \A j \in eqs : k <= j
             IN  <<SubSeq(s, 1, i - 1)>> \o SplitEq(SubSeq(s, i + 1, Len(s)))

\* the longest run of characters of a class that starts at position i
RECURSIVE RunFrom(_, _, _)
RunFrom(txt, i, class) ==
    IF i > Len(txt) \/ txt[i] \notin class THEN <<>>
    ELSE <<txt[i]>> \o RunFrom(txt, i + 1, class)

\* re.search of a pattern made of one of the characters of heads followed
\* by at least one character of class: the position of the leftmost match,
\* 0 when there is none
SearchAt(txt, heads, class) ==
    LET hits == {i \in 1..(Len(txt) - 1) : txt[i] \in heads /\ txt[i + 1] \in class}
    IN  IF hits = {} THEN 0 ELSE CHOOSE i \in hits : \A j \in hits : i <= j

\* txt.count("~")
RECURSIVE CountTilde(_)
CountTilde(txt) ==
    IF Len(txt) = 0 THEN 0
    ELSE (IF Head(txt) = "~" THEN 1 ELSE 0) + CountTilde(Tail(txt))

\* the overrides of a call of from_text are a function of the names of the
\* keyword arguments that are passed
Has(kw, k) == k \in DOMAIN kw

\* no keyword argument, and no call
NoKw == [k \in {} |-> 0]

NoCall == [txt |-> <<>>, kw |-> NoKw]

\* OffsetOf, the number after a lone "~" not read
OffsetByCountOnly(txt, kw) ==
    IF Has(kw, "offset") THEN kw["offset"] ELSE CountTilde(txt)

\* the offset: the override, or the number of "~" of the text, or the number
\* that follows when there is one "~" and digits after it
OffsetOf(txt, kw) ==
    LET count == CountTilde(txt)
        m == SearchAt(txt, {"~"}, Digits)
    IN  IF Has(kw, "offset") THEN kw["offset"]
        ELSE IF count = 1 /\ m # 0 THEN IntOf(RunFrom(txt, m + 1, Digits))
        ELSE count

\* SrcOf, the override not read
SrcOfTextOnly(txt, kw) ==
    LET m == SearchAt(txt, {"@"}, Alnum)
    IN  IF m = 0 THEN DefaultSrc ELSE LowerStr(RunFrom(txt, m + 1, Alnum))

\* the source: the override, or what follows the first "@" of the text, in
\* lower case, or the default
SrcOf(txt, kw) ==
    LET m == SearchAt(txt, {"@"}, Alnum)
    IN  IF Has(kw, "src") THEN kw["src"]
        ELSE IF m = 0 THEN DefaultSrc
        ELSE LowerStr(RunFrom(txt, m + 1, Alnum))

\* the dates that are written in the texts, %Y-%m-%d and %Y-%m-%dT%H:%M:%S
Day1 == <<"2", "0", "1", "8", "-", "0", "1", "-", "0", "1">>
Day1Midnight == Day1 \o <<"T", "0", "0", ":", "0", "0", ":", "0", "0">>
Day2Noon == <<"2", "0", "1", "8", "-", "0", "1", "-", "0", "2", "T", "1", "2", ":", "0", "0", ":", "0", "0">>

\* Date.strptime(s, fmt): the date read, as a set that is empty when
\* strptime raises ValueError
Strptime(s, fmt) ==
    IF fmt = "date" /\ s = Day1 THEN {1}
    ELSE IF fmt = "full" /\ s = Day1Midnight THEN {1}
    ELSE IF fmt = "full" /\ s = Day2Noon THEN {2}
    ELSE {}

\* parse_date(s, fmt="date"), and parse_date(s) when it raises ValueError
ParseDate(s) ==
    IF Strptime(s, "date") # {} THEN Strptime(s, "date")
    ELSE IF Strptime(s, "full") # {} THEN Strptime(s, "full")
    ELSE Strptime(s, "date")

\* the alias rows that Alias.name == value selects
AliasRows(al, value) == {a \in al : a.name = value}

Keys == {NameKey, NoradKey \o IdSuffix, CosparKey \o IdSuffix}

KeyName(key) ==
    CASE key = NameKey -> "name"
      [] key = NoradKey \o IdSuffix -> "norad_id"
      [] key = CosparKey \o IdSuffix -> "cospar_id"

\* the selector and the value as the text or the overrides give them,
\* before the aliases: a sequence of parts, two when well formed
RawSelection(txt, kw) ==
    IF Has(kw, "selector") /\ Has(kw, "value") THEN <<kw["selector"], kw["value"]>>
    ELSE LET str == SelectorStr(txt) IN
         IF \E i \in 1..Len(str) : str[i] = "=" THEN SplitEq(str) ELSE <<NameKey, str>>

\* Aliased, the alias table not looked up
NotAliased(al, sel) == sel

\* the selection after the lookup of the alias table
Aliased(al, sel) ==
    IF Len(sel) = 2 /\ sel[1] = NameKey /\ AliasRows(al, sel[2]) # {}
    THEN SplitEq((CHOOSE a \in AliasRows(al, sel[2]) : TRUE).selector)
    ELSE sel

\* "norad" and "cospar" are completed with "_id"
WithId(key) == IF key \in {NoradKey, CosparKey} THEN key \o IdSuffix ELSE key

\* Request.from_text(txt, **kw): the error raised and the Request returned
FromTextOutcome(al, txt, kw) ==
    LET sel == Aliased(al, RawSelection(txt, kw))
        m == SearchAt(txt, {"^", "?"}, DateChars)
        textDate == IF m = 0 THEN {} ELSE ParseDate(RunFrom(txt, m + 1, DateChars))
        fromKw == Has(kw, "limit") /\ Has(kw, "date")
    IN  IF Len(RawSelection(txt, kw)) # 2 \/ Len(sel) # 2 THEN [err |-> "ValueError", req |-> {}]
        ELSE IF WithId(sel[1]) \notin Keys THEN [err |-> "ValueError", req |-> {}]
        ELSE IF ~fromKw /\ m # 0 /\ textDate = {} THEN [err |-> "ValueError", req |-> {}]
        ELSE [err |-> "none",
              req |-> {[selector |-> KeyName(WithId(sel[1])),
                        value |-> sel[2],
                        src |-> SrcOf(txt, kw),
                        offset |-> OffsetOf(txt, kw),
                        limit |-> IF fromKw THEN kw["limit"]
                                  ELSE IF m = 0 THEN "any"
                                  ELSE IF txt[m] = "^" THEN "after" ELSE "before",
                        date |-> IF fromKw THEN kw["date"] ELSE textDate]}]

\* "{:%FT%T}".format(date)
FormatDate(d) == IF d = 1 THEN Day1Midnight ELSE Day2Noon

\* str(n) of a natural number
RECURSIVE Decimal(_)
Decimal(n) ==
    IF n < 10 THEN <<CHOOSE c \in Digits : DigitVal(c) = n>>
    ELSE Decimal(n \div 10) \o <<CHOOSE c \in Digits : DigitVal(c) = n % 10>>

KeyChars(selector) == CHOOSE key \in Keys : KeyName(key) = selector

\* Request.__str__: selector=value@src, ~offset when it is positive, and
\* the limit and the date when there is a date
ToText(r) ==
    KeyChars(r.selector) \o <<"=">> \o r.value \o <<"@">> \o r.src
    \o (IF r.offset > 0 THEN <<"~">> \o Decimal(r.offset) ELSE <<>>)
    \o (IF r.date # {}
        THEN <<IF r.limit = "after" THEN "^" ELSE "?">>
             \o FormatDate(CHOOSE d \in r.date : TRUE)
        ELSE <<>>)

FromText ==
    /\ \E o \in {FromTextOutcome(aliases, call.txt, call.kw)} :
         last' = [op |-> "from_text", txt |-> call.txt, kw |-> call.kw,
                  err |-> o.err, req |-> o.req]
    /\ UNCHANGED <<tledb, sats, aliases, call, archive, procs>>

-----------------------------------------------------------------------------
(* The CCSDS archive (CcsdsDb).  A satellite has the folder of its         *)
(* cospar_id; a file is the folder, the name and the orbit written in it;  *)
(* a tag is a line of the .tags.yml of a folder, a tag name and a file     *)
(* name.                                                                   *)

NoArchive == [folders |-> {}, files |-> {}, tags |-> {}]

\* the characters of the file names, in the order of their codes
Ascii == <<"-", ".", "0", "1", "2", "3", "4", "5", "6", "7", "8", "9">>
         \o UpperCase \o <<"_">> \o LowerCase

Ord(c) == CHOOSE i \in 1..Len(Ascii) : Ascii[i] = c

\* a < b for two strings, as sorted() compares the paths of one folder
RECURSIVE LexLess(_, _)
LexLess(a, b) ==
    IF Len(b) = 0 THEN FALSE
    ELSE IF Len(a) = 0 THEN TRUE
    ELSE IF Head(a) # Head(b) THEN Ord(Head(a)) < Ord(Head(b))
    ELSE LexLess(Tail(a), Tail(b))

\* "{:%Y%m%d_%H%M%S}".format(date), for the dates of the time axis: 1 is
\* 2018-01-01 and 2 is 2018-01-02T12:00:00
Stamp(d) ==
    CASE d = 0 -> <<"2", "0", "1", "7", "1", "2", "3", "1", "_", "0", "0", "0", "0", "0", "0">>
      [] d = 2 -> <<"2", "0", "1", "8", "0", "1", "0", "2", "_", "1", "2", "0", "0", "0", "0">>
      [] OTHER -> <<"2", "0", "1", "8", "0", "1", "0">> \o Decimal(d)
                  \o <<"_", "0", "0", "0", "0", "0", "0">>

\* Date.strptime(s, "%Y%m%d_%H%M%S")
StampDate(s) == CHOOSE d \in 0..9 : Stamp(d) = s

\* CcsdsDb.filename: cospar_id, date and extension
FileName(cospar, d, ext) == Chars(cospar) \o <<"_">> \o Stamp(d) \o <<".">> \o ext

\* file.stem.partition("_")[2]: what follows the first "_" of the name,
\* without the extension
StemDate(name) ==
    LET dot == CHOOSE i \in 1..Len(name) :
                    name[i] = "." /\ \A j \in (i + 1)..Len(name) : name[j] # "."
        us == CHOOSE i \in 1..Len(name) :
                    name[i] = "_" /\ \A j \in 1..(i - 1) : name[j] # "_"
    IN  StampDate(SubSeq(name, us + 1, dot - 1))

\* sat.folder.glob("*.ext")
Glob(arch, cospar, ext) ==
    {f \in arch.files :
        /\ f.folder = cospar
        /\ Len(f.name) > Len(ext)
        /\ SubSeq(f.name, Len(f.name) - Len(ext), Len(f.name)) = <<".">> \o ext}

\* sorted(files, reverse=reverse)
RECURSIVE Sorted(_, _)
Sorted(files, reverse) ==
    IF files = {} THEN <<>>
    ELSE LET f == CHOOSE x \in files : \A y \in files :
                    x = y \/ (IF reverse THEN LexLess(y.name, x.name)
                                         ELSE LexLess(x.name, y.name))
         IN  <<f>> \o Sorted(files \ {f}, reverse)

\* List, the files always in ascending order
ListAscending(arch, cospar, ext, reverse) == Sorted(Glob(arch, cospar, ext), FALSE)

\* CcsdsDb._list(sat, ext, reverse)
List(arch, cospar, ext, reverse) == Sorted(Glob(arch, cospar, ext), reverse)

\* GetOutcome, the date of the file compared with <= and >=
GetOutcomeInclusive(arch, cospar, req) ==
    IF req.date # {}
    THEN LET d == CHOOSE x \in req.date : TRUE
             files == List(arch, cospar, req.src, req.limit = "before")
             hits == {i \in 1..Len(files) :
                        IF req.limit = "before" THEN StemDate(files[i].name) <= d
                                                ELSE StemDate(files[i].name) >= d}
         IN  IF hits = {} THEN [err |-> "ValueError", out |-> {}]
             ELSE [err |-> "none",
                   out |-> {files[CHOOSE i \in hits : \A j \in hits : i <= j]}]
    ELSE LET files == List(arch, cospar, req.src, TRUE)
         IN  IF req.offset < Len(files)
             THEN [err |-> "none", out |-> {files[req.offset + 1]}]
             ELSE [err |-> "ValueError", out |-> {}]

\* CcsdsDb.get(sat): the error raised and the file read
GetOutcome(arch, cospar, req) ==
    IF req.date # {}
    THEN LET d == CHOOSE x \in req.date : TRUE
             files == List(arch, cospar, req.src, req.limit = "before")
             hits == {i \in 1..Len(files) :
                        IF req.limit = "before" THEN StemDate(files[i].name) < d
                                                ELSE StemDate(files[i].name) > d}
         IN  IF hits = {} THEN [err |-> "ValueError", out |-> {}]
             ELSE [err |-> "none",
                   out |-> {files[CHOOSE i \in hits : \A j \in hits : i <= j]}]
    ELSE LET files == List(arch, cospar, req.src, TRUE)
         IN  IF req.offset < Len(files)
             THEN [err |-> "none", out |-> {files[req.offset + 1]}]
             ELSE [err |-> "ValueError", out |-> {}]

\* the oem and opm branch of _from_request: get when the folder exists, and
\* NoDataError for its ValueError and for a missing folder
CcsdsOrbOutcome(arch, cospar, req) ==
    IF cospar \in arch.folders
    THEN LET g == GetOutcome(arch, cospar, req)
         IN  IF g.err = "ValueError" THEN [err |-> "NoDataError", out |-> {}] ELSE g
    ELSE [err |-> "NoDataError", out |-> {}]

CcsdsGet(cospar, req) ==
    /\ \E g \in {GetOutcome(archive, cospar, req)} :
         last' = [op |-> "ccsds_get", cospar |-> cospar, req |-> req,
                  err |-> g.err, out |-> g.out,
                  reported |-> CcsdsOrbOutcome(archive, cospar, req).err]
    /\ UNCHANGED <<tledb, sats, aliases, call, archive, procs>>

\* the extension of the file of an orbit: opm for an Orbit, oem for an Ephem
ExtOf(orb) == IF orb.type = "Orbit" THEN OPM ELSE OEM

\* InsertedFiles, the file written whether or not it exists and force is set
InsertedFilesAlways(files, cospar, orb, force) ==
    {f \in files : ~(f.folder = cospar /\ f.name = FileName(cospar, orb.date, ExtOf(orb)))}
    \cup {[folder |-> cospar, name |-> FileName(cospar, orb.date, ExtOf(orb)),
           orb |-> orb]}

\* the files after CcsdsDb.insert(sat, force) has written the file of the
\* orbit, which it does not when the file exists and force is not set
InsertedFiles(files, cospar, orb, force) ==
    LET name == FileName(cospar, orb.date, ExtOf(orb)) IN
    IF (\E f \in files : f.folder = cospar /\ f.name = name) /\ ~force THEN files
    ELSE {f \in files : ~(f.folder = cospar /\ f.name = name)}
         \cup {[folder |-> cospar, name |-> name, orb |-> orb]}

\* CcsdsDb.insert(sat, force): the folder is made, then the file written
CcsdsInsert(cospar, orb, force) ==
    LET name == FileName(cospar, orb.date, ExtOf(orb))
        exists == \E f \in archive.files : f.folder = cospar /\ f.name = name
        err == IF orb.type \notin {"Orbit", "Ephem"} THEN "TypeError"
               ELSE IF exists /\ ~force THEN "FileExistsError"
               ELSE "none"
    IN  /\ archive' = [archive EXCEPT
                        !.folders = @ \cup {cospar},
                        !.files = IF err = "TypeError" THEN @
                                  ELSE InsertedFiles(@, cospar, orb, force)]
        /\ last' = [op |-> "ccsds_insert", cospar |-> cospar, orb |-> orb,
                    force |-> force, err |-> err, before |-> archive]
        /\ UNCHANGED <<tledb, sats, aliases, call, procs>>

\* Path.suffix without its dot: what follows the last "." of the name
PathSuffix(name) ==
    LET dot == CHOOSE i \in 1..Len(name) :
                    name[i] = "." /\ \A j \in (i + 1)..Len(name) : name[j] # "."
    IN  SubSeq(name, dot + 1, Len(name))

\* CcsdsDb.tags(sat, ext): the lines of the tag file of the folder, those
\* of the files of one extension when ext is given
Tags(arch, cospar, ext) ==
    {t \in arch.tags : t.folder = cospar /\ \A e \in ext : PathSuffix(t.name) = e}

\* the characters of a tag name
TagChars(tag) ==
    CASE tag = "ok" -> <<"o", "k">>
      [] tag = "Ref" -> <<"R", "e", "f">>
      [] OTHER -> <<"b", "e", "s", "t">>

\* TagLines, the lines of the tag file from the greatest name to the least
TagLinesDescending(arch, cospar) ==
    LET RECURSIVE Lines(_)
        Lines(ts) ==
            IF ts = {} THEN <<>>
            ELSE LET t == CHOOSE x \in ts : \A y \in ts :
                            x = y \/ LexLess(TagChars(y.tag), TagChars(x.tag))
                 IN  <<t>> \o Lines(ts \ {t})
    IN  Lines(Tags(arch, cospar, {}))

\* the lines of the tag file in the order they are read back:
\* yaml.safe_dump writes the mapping sorted by its keys, the tag names
TagLines(arch, cospar) ==
    LET RECURSIVE Lines(_)
        Lines(ts) ==
            IF ts = {} THEN <<>>
            ELSE LET t == CHOOSE x \in ts : \A y \in ts :
                            x = y \/ LexLess(TagChars(x.tag), TagChars(y.tag))
                 IN  <<t>> \o Lines(ts \ {t})
    IN  Lines(Tags(arch, cospar, {}))

\* CcsdsDb.rtags(sat)[file], dict(zip(tags.values(), tags.keys())): the tag
\* of the last of the lines that name the file
RtagOf(arch, cospar, name) ==
    LET lines == TagLines(arch, cospar)
        at == {i \in 1..Len(lines) : lines[i].name = name}
    IN  {lines[i].tag : i \in {j \in at : \A k \in at : k <= j}}

\* Rtags, no file bearing a tag
Untagged(arch, cospar, ext) == {}

\* CcsdsDb.rtags(sat, ext): the files that bear a tag
Rtags(arch, cospar, ext) == {t.name : t \in Tags(arch, cospar, ext)}

\* TagTaken, the tag never found in the tag file
TagTakenNever(arch, cospar, tag, force) == FALSE

\* the ValueError of CcsdsDb.tag: the tag is in the tag file and force is
\* not set
TagTaken(arch, cospar, tag, force) ==
    (\E t \in Tags(arch, cospar, {}) : t.tag = tag) /\ ~force

\* Bound, the line the tag had left in the tag file
BoundBeside(tags, cospar, tag, name) ==
    tags \cup {[folder |-> cospar, tag |-> tag, name |-> name]}

\* tags[tag] = sat.orb.filepath and the dump of the tags of the folder
Bound(tags, cospar, tag, name) ==
    {t \in tags : ~(t.folder = cospar /\ t.tag = tag)}
    \cup {[folder |-> cospar, tag |-> tag, name |-> name]}

\* the tag command: the orbit of the satellite is loaded from the archive
\* as _from_request does, then CcsdsDb.tag(sat, tag, force) binds the tag to
\* the file it was read from
TagCmd(cospar, req, tag, force) ==
    \E o \in {CcsdsOrbOutcome(archive, cospar, req)} :
    LET err == IF o.err # "none" THEN o.err
               ELSE IF TagTaken(archive, cospar, tag, force) THEN "ValueError"
               ELSE "none"
    IN  /\ archive' = IF err = "none"
                      THEN [archive EXCEPT !.tags =
                              Bound(@, cospar, tag, (CHOOSE f \in o.out : TRUE).name)]
                      ELSE archive
        /\ last' = [op |-> "tag", cospar |-> cospar, req |-> req, tag |-> tag,
                    force |-> force, err |-> err, file |-> o.out,
                    before |-> archive]
        /\ UNCHANGED <<tledb, sats, aliases, call, procs>>

\* the loop of the purge command over the satellites: the files of the
\* extension older than until are listed, the command exits when there is
\* none or when the answer is not yes, and the listed files that bear no
\* tag are unlinked.  The outcome is the files left and the satellites the
\* deletion was confirmed for.
RECURSIVE PurgeOutcome(_, _, _, _, _, _)
PurgeOutcome(arch, cospars, ext, until, answers, confirmed) ==
    IF Len(cospars) = 0 THEN [files |-> arch.files, confirmed |-> confirmed]
    ELSE LET cospar == Head(cospars)
             rtags == Rtags(arch, cospar, {})
             files == List(arch, cospar, ext, TRUE)
             sublist == {files[i] : i \in {j \in 1..Len(files) :
                                            StemDate(files[j].name) < until}}
         IN  IF sublist = {} \/ ~Head(answers)
             THEN [files |-> arch.files, confirmed |-> confirmed]
             ELSE PurgeOutcome(
                    [arch EXCEPT !.files = @ \ {f \in sublist : f.name \notin rtags}],
                    Tail(cospars), ext, until, Tail(answers),
                    confirmed \cup {cospar})

Purge(cospars, ext, until, answers) ==
    \E o \in {PurgeOutcome(archive, cospars, ext, until, answers, {})} :
    /\ archive' = [archive EXCEPT !.files = o.files]
    /\ last' = [op |-> "purge", cospars |-> cospars, ext |-> ext,
                until |-> until, confirmed |-> o.confirmed, before |-> archive]
    /\ UNCHANGED <<tledb, sats, aliases, call, procs>>

-----------------------------------------------------------------------------
(* The satellite registry (SatModel) and Sat._from_request.  A row is a    *)
(* record of norad_id, cospar_id and name; its id is its position in sats. *)

\* NULL in the norad_id column
NullId == 0
\* NULL in a text column
NullStr == "NULL"

\* .filter(**{req.selector: req.value}) on SatModel
SatMatches(row, selector, value) ==
    CASE selector = "norad_id" ->
            row.norad_id # NullId /\ IsDigits(value) /\ row.norad_id = IntOf(value)
      [] selector = "cospar_id" -> row.cospar_id # NullStr /\ Chars(row.cospar_id) = value
      [] selector = "name" -> row.name # NullStr /\ Chars(row.name) = value

\* SatModel(**{req.selector: req.value})
NewSat(selector, value) ==
    [norad_id |-> IF selector = "norad_id" THEN IntOf(value) ELSE NullId,
     cospar_id |-> IF selector = "cospar_id" THEN Str(value) ELSE NullStr,
     name |-> IF selector = "name" THEN Str(value) ELSE NullStr]

\* TleOrbOutcomes, the offset looked at before the date
TleOrbOffsetFirst(db, req) ==
    IF req.limit = "any" \/ req.offset > 0
    THEN {IF h.err # "none" \/ Len(h.out) <= req.offset
          THEN [err |-> "NoDataError", orb |-> {}]
          ELSE [err |-> "none", orb |-> {h.out[1]}] :
            h \in HistoryOutcomes(db, req.selector, req.value, {req.offset + 1}, {}, {})}
    ELSE LET rows == DatedRows(db, req.limit, CHOOSE d \in req.date : TRUE,
                               req.selector, req.value)
         IN  IF rows = {}
             THEN {[err |-> IF GetDatedMissing = "TleNotFound"
                            THEN "NoDataError" ELSE GetDatedMissing,
                    orb |-> {}]}
             ELSE {[err |-> "none", orb |-> {r}] : r \in DatedFirst(rows, req.limit)}

\* the orbit of a request on the tle source: by offset through history when
\* limit is "any", by date through get_dated otherwise
TleOrbOutcomes(db, req) ==
    IF req.limit = "any"
    THEN {IF h.err # "none" \/ Len(h.out) <= req.offset
          THEN [err |-> "NoDataError", orb |-> {}]
          ELSE [err |-> "none", orb |-> {h.out[1]}] :
            h \in HistoryOutcomes(db, req.selector, req.value, {req.offset + 1}, {}, {})}
    ELSE LET rows == DatedRows(db, req.limit, CHOOSE d \in req.date : TRUE,
                               req.selector, req.value)
         IN  IF rows = {}
             THEN {[err |-> IF GetDatedMissing = "TleNotFound"
                            THEN "NoDataError" ELSE GetDatedMissing,
                    orb |-> {}]}
             ELSE {[err |-> "none", orb |-> {r}] : r \in DatedFirst(rows, req.limit)}

\* _from_request(req, create=, temporary=, orb=): the registry, the error
\* raised, the row of the Sat returned and its orbit
FromRequestOutcomes(db, reg, req, create, temporary, orb) ==
    LET found == {i \in 1..Len(reg) : SatMatches(reg[i], req.selector, req.value)}
        withOrb == orb /\ ~(create \/ temporary)
        resolved(reg2, row) ==
            IF ~withOrb
            THEN {[sats |-> reg2, err |-> "none", sat |-> {row}, orb |-> {}]}
            ELSE {[sats |-> reg2, err |-> o.err,
                   sat |-> IF o.err = "none" THEN {row} ELSE {}, orb |-> o.orb] :
                    o \in TleOrbOutcomes(db, req)}
    IN  IF found # {}
        THEN UNION {resolved(reg, reg[i]) : i \in found}
        ELSE IF ~(create \/ temporary)
        THEN {[sats |-> reg, err |-> "ValueError", sat |-> {}, orb |-> {}]}
        ELSE IF create /\ NewSat(req.selector, req.value).name = NullStr
        THEN {[sats |-> reg, err |-> "IntegrityError", sat |-> {}, orb |-> {}]}
        ELSE resolved(IF create THEN Append(reg, NewSat(req.selector, req.value)) ELSE reg,
                      NewSat(req.selector, req.value))

FromRequest(req, create, temporary, orb) ==
    /\ req.src = TLE
    /\ \E o \in FromRequestOutcomes(tledb, sats, req, create, temporary, orb) :
         /\ sats' = o.sats
         /\ last' = [op |-> "from_request", req |-> req, create |-> create,
                     temporary |-> temporary, withorb |-> orb,
                     err |-> o.err, sat |-> o.sat, orb |-> o.orb, before |-> sats]
    /\ UNCHANGED <<tledb, aliases, call, archive, procs>>

\* Sat.from_selector(string): from_text, then _from_request on its Request
FromSelectorOutcomes(db, reg, al, txt) ==
    LET p == FromTextOutcome(al, txt, NoKw) IN
    IF p.err # "none"
    THEN {[sats |-> reg, err |-> p.err, raised |-> "from_text", req |-> {},
           sat |-> {}, orb |-> {}]}
    ELSE {[sats |-> o.sats, err |-> o.err, raised |-> "_from_request", req |-> p.req,
           sat |-> o.sat, orb |-> o.orb] :
            o \in FromRequestOutcomes(db, reg, CHOOSE r \in p.req : TRUE,
                                      FALSE, FALSE, TRUE)}

FromSelector(txt) ==
    /\ \E o \in FromSelectorOutcomes(tledb, sats, aliases, txt) :
         /\ sats' = o.sats
         /\ last' = [op |-> "from_selector", txt |-> txt, err |-> o.err,
                     raised |-> o.raised, req |-> o.req, sat |-> o.sat, orb |-> o.orb]
    /\ UNCHANGED <<tledb, aliases, call, archive, procs>>

\* the last branch of _from_request: the file that the tag file of the
\* folder binds to req.src is loaded, and NoDataError is raised when
\* req.src is no key of the tag file
TagOrbOutcome(arch, cospar, req) ==
    LET bound == {t \in Tags(arch, cospar, {}) : TagChars(t.tag) = req.src}
    IN  IF bound = {} THEN [err |-> "NoDataError", orb |-> {}]
        ELSE [err |-> "none",
              orb |-> {f \in arch.files :
                        f.folder = cospar /\ \E t \in bound : f.name = t.name}]

\* the orbit of a found row by the source of the request: the TLE store,
\* the archive (oem, opm) or a tag; sat.folder splits the cospar_id of the
\* row, which is None when the column is NULL
SourceOrbOutcomes(db, arch, row, req) ==
    IF req.src = TLE THEN TleOrbOutcomes(db, req)
    ELSE IF row.cospar_id = NullStr THEN {[err |-> "AttributeError", orb |-> {}]}
    ELSE IF req.src \in {OEM, OPM}
    THEN {[err |-> o.err, orb |-> o.out] :
            o \in {CcsdsOrbOutcome(arch, row.cospar_id, req)}}
    ELSE {TagOrbOutcome(arch, row.cospar_id, req)}

\* Sat.from_selector(string) on any source: from_text, the registry row,
\* then the orbit by the source
FromSelectorAtOutcomes(db, reg, arch, al, txt) ==
    LET p == FromTextOutcome(al, txt, NoKw) IN
    IF p.err # "none" THEN {[err |-> p.err, req |-> {}, sat |-> {}, orb |-> {}]}
    ELSE LET req == CHOOSE r \in p.req : TRUE
             found == {i \in 1..Len(reg) : SatMatches(reg[i], req.selector, req.value)}
         IN  IF found = {}
             THEN {[err |-> "ValueError", req |-> p.req, sat |-> {}, orb |-> {}]}
             ELSE UNION {{[err |-> o.err, req |-> p.req,
                           sat |-> IF o.err = "none" THEN {reg[i]} ELSE {},
                           orb |-> o.orb] :
                            o \in SourceOrbOutcomes(db, arch, reg[i], req)} : i \in found}

FromSelectorAt(txt) ==
    /\ \E o \in FromSelectorAtOutcomes(tledb, sats, archive, aliases, txt) :
         last' = [op |-> "from_selector_at", txt |-> txt, err |-> o.err,
                  req |-> o.req, sat |-> o.sat, orb |-> o.orb]
    /\ UNCHANGED <<tledb, sats, aliases, call, archive, procs>>

\* Sat.from_selector(selector, orb=False): the error raised and the row of
\* the Sat returned
SatOfSelector(db, reg, al, txt) ==
    LET p == FromTextOutcome(al, txt, NoKw) IN
    IF p.err # "none" THEN {[err |-> p.err, sat |-> {}]}
    ELSE {[err |-> o.err, sat |-> o.sat] :
            o \in FromRequestOutcomes(db, reg, CHOOSE r \in p.req : TRUE,
                                      FALSE, FALSE, FALSE)}

\* the alias table after alias.save(): the row of the name holds the
\* selector as it was typed
SavedAlias(al, name, selector) ==
    {a \in al : a.name # name} \cup {[name |-> name, selector |-> selector]}

\* the alias command: the selector has to designate a registered
\* satellite, then the alias is created, or replaced under --force when
\* the name is taken; the command exits otherwise
AliasCmd(name, selector, force) ==
    /\ \E o \in SatOfSelector(tledb, sats, aliases, selector) :
         LET stored == o.err = "none" /\ (AliasRows(aliases, name) = {} \/ force)
         IN  /\ aliases' = IF stored THEN SavedAlias(aliases, name, selector) ELSE aliases
             /\ last' = [op |-> "alias", name |-> name, selector |-> selector,
                         force |-> force, err |-> o.err, stored |-> stored,
                         sat |-> o.sat, before |-> aliases]
    /\ UNCHANGED <<tledb, sats, call, archive, procs>>

\* Request.from_text(txt)
FromTextOf(txt) ==
    /\ \E o \in {FromTextOutcome(aliases, txt, NoKw)} :
         last' = [op |-> "from_text_of", txt |-> txt, err |-> o.err, req |-> o.req]
    /\ UNCHANGED <<tledb, sats, aliases, call, archive, procs>>

\* all_sats = {sat.norad_id: sat for sat in SatModel.select()}: the id of
\* the row a norad_id is bound to, the last one that bears it
RowOfNorad(reg, n) ==
    LET ids == {i \in 1..Len(reg) : reg[i].norad_id = n}
    IN  CHOOSE i \in ids : \A j \in ids : j <= i

\* the registry after the TLE part of sync, for the TLEs that dump() gave,
\* taken by ascending norad_id
RECURSIVE SyncRows(_, _, _)
SyncRows(reg, known, dumped) ==
    IF dumped = {} THEN reg
    ELSE LET tle == CHOOSE t \in dumped : \A u \in dumped : t.norad_id <= u.norad_id
             row == [norad_id |-> tle.norad_id, cospar_id |-> tle.cospar_id,
                     name |-> tle.name]
         IN  IF \E i \in 1..Len(known) : known[i].norad_id = tle.norad_id
             THEN SyncRows([reg EXCEPT ![RowOfNorad(known, tle.norad_id)] = row],
                           known, dumped \ {tle})
             ELSE SyncRows(Append(reg, row), known, dumped \ {tle})

\* sync("tle")
SyncTle ==
    /\ \E dumped \in DumpOutcomes(tledb, FALSE) :
         sats' = SyncRows(sats, sats, dumped)
    /\ last' = [op |-> "sync", source |-> "tle", err |-> "none"]
    /\ UNCHANGED <<tledb, aliases, call, archive, procs>>

\* the orderings of a set of rows
Orderings(rows) == {s \in [1..Cardinality(rows) -> rows] : Range(s) = rows}

\* the names read for the folders of cospars: the name of the orbit of
\* files[0], any of the oem files of the folder, and UNKNOWN without one
FolderNames(arch, cospars) ==
    {names \in [cospars -> {"ISS", "OBJ", "UNKNOWN"}] :
        \A c \in cospars :
            IF Glob(arch, c, OEM) = {} THEN names[c] = "UNKNOWN"
            ELSE \E f \in Glob(arch, c, OEM) : names[c] = f.orb.name}

\* the rows the ephem part of sync makes: one for each folder of satdb whose
\* cospar_id no row of the registry bears, in the order the set of these
\* cospar_ids is walked
EphemNew(reg, arch) ==
    LET cospars == arch.folders \ {reg[i].cospar_id : i \in 1..Len(reg)}
    IN  UNION {Orderings({[norad_id |-> NullId, cospar_id |-> c, name |-> names[c]] :
                            c \in cospars}) :
                names \in FolderNames(arch, cospars)}

\* sync(source): the TLEs dump() gave and the registry once update + new
\* are saved; both parts read the registry as it is before the saving
SyncOutcomes(db, reg, arch, source) ==
    {[sats |-> SyncRows(reg, reg, dumped) \o new, dumped |-> dumped] :
        dumped \in IF source \in {"all", "tle"} THEN DumpOutcomes(db, FALSE) ELSE {{}},
        new \in IF source \in {"all", "ephem"} THEN EphemNew(reg, arch) ELSE {<<>>}}

Sync(source) ==
    /\ \E o \in SyncOutcomes(tledb, sats, archive, source) :
         /\ sats' = o.sats
         /\ last' = [op |-> "sync", source |-> source, err |-> "none",
                     dumped |-> o.dumped, before |-> sats,
                     again |-> /\ last.op = "sync"
                               /\ last.source = source
                               /\ last.dumped = o.dumped]
    /\ UNCHANGED <<tledb, aliases, call, archive, procs>>

-----------------------------------------------------------------------------
(* TleDb.insert and sync statement by statement.  Both write inside        *)
(* db.atomic(): the statements act on the view of the transaction          *)
(* (procs.work), the tables tledb and sats being what is committed, which  *)
(* is what another connection reads and what is left after a crash.        *)

\* Visible, the writes made outside of a transaction
VisibleAtOnce(committed, work) == work

\* with db.atomic(): the table as it is read from outside while the
\* transaction is open
Visible(committed, work) == committed

\* update + new of sync: the ids of the rows that are saved, the updated
\* ones in the order of dump(), then the new ones
RECURSIVE InDumpOrder(_, _)
InDumpOrder(target, ids) ==
    IF ids = {} THEN <<>>
    ELSE LET i == CHOOSE x \in ids : \A y \in ids : target[x].norad_id <= target[y].norad_id
         IN  <<i>> \o InDumpOrder(target, ids \ {i})

Saves(reg, target) ==
    InDumpOrder(target, {i \in 1..Len(reg) : target[i] # reg[i]})
    \o [k \in 1..(Len(target) - Len(reg)) |-> Len(reg) + k]

\* sat.save(): UPDATE of the row that has an id, INSERT of a new one
Saved(work, target, i) ==
    IF i <= Len(work) THEN [work EXCEPT ![i] = target[i]] ELSE Append(work, target[i])

\* insert enters db.atomic()
InsertBegin(tles) ==
    /\ procs = NoProcs
    /\ procs' = [op |-> "insert", text |-> tles, i |-> 0, entities |-> <<>>,
                 before |-> tledb, work |-> tledb, done |-> FALSE]
    /\ last' = [op |-> "begin", kind |-> "insert"]
    /\ UNCHANGED <<tledb, sats, aliases, call, archive>>

\* one turn of the loop of insert: the TLE is looked up and kept when it
\* has no row
InsertCheck ==
    /\ procs # NoProcs /\ procs.op = "insert" /\ procs.i < Len(procs.text)
    /\ LET tle == procs.text[procs.i + 1]
       IN  procs' = [procs EXCEPT !.i = @ + 1,
                                  !.entities = IF Stored(procs.work, tle) THEN @
                                               ELSE Append(@, tle)]
    /\ UNCHANGED <<tledb, sats, aliases, call, archive, last>>

\* the end of the loop: insert_many, one statement for all the entities,
\* ValueError for a text without TLE; an error leaves the transaction
InsertMany ==
    /\ procs # NoProcs /\ procs.op = "insert"
    /\ procs.i = Len(procs.text) /\ ~procs.done
    /\ LET err == IF Len(procs.entities) > 0
                  THEN IF UniqueIndexViolated(procs.work, procs.entities)
                       THEN "IntegrityError" ELSE "none"
                  ELSE IF Len(procs.text) = 0 THEN "ValueError" ELSE "none"
       IN  IF err = "none"
           THEN /\ procs' = [procs EXCEPT !.work = @ \cup Range(procs.entities),
                                          !.done = TRUE]
                /\ tledb' = Visible(tledb, procs'.work)
                /\ UNCHANGED last
           ELSE /\ procs' = NoProcs
                /\ last' = [op |-> "rollback", kind |-> "insert", err |-> err,
                            before |-> procs.before, text |-> procs.text, saved |-> 0]
                /\ UNCHANGED tledb
    /\ UNCHANGED <<sats, aliases, call, archive>>

\* sync(source) has gathered update and new and enters db.atomic()
SyncBegin(source) ==
    /\ procs = NoProcs
    /\ \E o \in SyncOutcomes(tledb, sats, archive, source) :
         procs' = [op |-> "sync", source |-> source, target |-> o.sats,
                   pending |-> Saves(sats, o.sats), saved |-> 0,
                   before |-> sats, work |-> sats, done |-> FALSE]
    /\ last' = [op |-> "begin", kind |-> "sync"]
    /\ UNCHANGED <<tledb, sats, aliases, call, archive>>

\* one turn of the loop of sync: sat.save()
SyncSave ==
    /\ procs # NoProcs /\ procs.op = "sync" /\ ~procs.done
    /\ IF Len(procs.pending) = 0
       THEN /\ procs' = [procs EXCEPT !.done = TRUE]
            /\ UNCHANGED sats
       ELSE /\ procs' = [procs EXCEPT
                            !.work = Saved(@, procs.target, Head(procs.pending)),
                            !.pending = Tail(@), !.saved = @ + 1]
            /\ sats' = Visible(sats, procs'.work)
    /\ UNCHANGED <<tledb, aliases, call, archive, last>>

\* the block of db.atomic() is left without error: COMMIT
Commit ==
    /\ procs # NoProcs /\ procs.done
    /\ IF procs.op = "insert"
       THEN /\ tledb' = procs.work
            /\ last' = [op |-> "commit", kind |-> "insert", err |-> "none",
                        before |-> procs.before, text |-> procs.text]
            /\ UNCHANGED sats
       ELSE /\ sats' = procs.work
            /\ last' = [op |-> "commit", kind |-> "sync", err |-> "none",
                        before |-> procs.before, target |-> procs.target]
            /\ UNCHANGED tledb
    /\ procs' = NoProcs
    /\ UNCHANGED <<aliases, call, archive>>

\* the block is left by an error of a statement, or the process dies: the
\* transaction is rolled back
Interrupt ==
    /\ procs # NoProcs
    /\ procs' = NoProcs
    /\ last' = [op |-> "rollback", kind |-> procs.op, err |-> "interrupted",
                before |-> procs.before,
                saved |-> IF procs.op = "sync" THEN procs.saved ELSE 0,
                left |-> IF procs.op = "sync" THEN Len(procs.pending) ELSE 0]
    /\ UNCHANGED <<tledb, sats, aliases, call, archive>>

-----------------------------------------------------------------------------
(* celestrak._fetch: one _fetch_file task for each page, gathered on one   *)
(* event loop.  A task awaits its response; when the response is there it  *)
(* calls TleDb().insert, which holds no await: the loop gives the hand to  *)
(* another task only where a task awaits.                                  *)

Pages == {"stations", "visual"}

\* LoopFree, as if insert gave the hand back between its two halves
LoopFreeAlways(pr) == TRUE

\* no task is between the lookup loop of insert and its insert_many: the
\* event loop can resume a task whose response is complete
LoopFree(pr) == pr.running = {}

\* _fetch(files): the tasks are made and gathered
Fetch(texts) ==
    /\ procs = NoProcs
    /\ procs' = [op |-> "fetch", before |-> tledb, running |-> {},
                 tasks |-> [p \in Pages |-> [pc |-> "awaiting", text |-> texts[p],
                                             entities |-> <<>>]]]
    /\ last' = [op |-> "fetch"]
    /\ UNCHANGED <<tledb, sats, aliases, call, archive>>

\* the response of a page is complete and its task is resumed: the file is
\* written and insert runs its lookup loop
FetchFileCheck(p) ==
    /\ procs # NoProcs /\ procs.op = "fetch"
    /\ procs.tasks[p].pc = "awaiting"
    /\ LoopFree(procs)
    /\ procs' = [procs EXCEPT !.running = @ \cup {p},
                              !.tasks[p].pc = "checked",
                              !.tasks[p].entities = Entities(tledb, procs.tasks[p].text)]
    /\ last' = [op |-> "fetch_check", page |-> p]
    /\ UNCHANGED <<tledb, sats, aliases, call, archive>>

\* insert_many of the task and the end of its insert
FetchFileInsert(p) ==
    /\ procs # NoProcs /\ procs.op = "fetch"
    /\ procs.tasks[p].pc = "checked"
    /\ LET entities == procs.tasks[p].entities
           err == IF Len(entities) > 0 /\ UniqueIndexViolated(tledb, entities)
                  THEN "IntegrityError"
                  ELSE IF Len(procs.tasks[p].text) = 0 THEN "ValueError" ELSE "none"
       IN  /\ tledb' = IF err = "none" THEN tledb \cup Range(entities) ELSE tledb
           /\ procs' = [procs EXCEPT !.running = @ \ {p},
                                     !.tasks[p].pc = IF err = "none" THEN "done" ELSE err]
           /\ last' = [op |-> "fetch_insert", page |-> p, err |-> err]
    /\ UNCHANGED <<sats, aliases, call, archive>>

\* gather returns: every task has ended
FetchEnd ==
    /\ procs # NoProcs /\ procs.op = "fetch"
    /\ \A p \in Pages : procs.tasks[p].pc \notin {"awaiting", "checked"}
    /\ procs' = NoProcs
    /\ last' = [op |-> "fetch_end"]
    /\ UNCHANGED <<tledb, sats, aliases, call, archive>>

-----------------------------------------------------------------------------

Init ==
    /\ tledb = {}
    /\ sats = <<>>
    /\ aliases = {[name |-> ISS, selector |-> NoradIdEq \o N25544]}
    /\ call = NoCall
    /\ archive = NoArchive
    /\ procs = NoProcs
    /\ last = [op |-> "none"]

NextInsert == \E tles \in Texts : Insert(tles)

SpecInsert == Init /\ [][NextInsert]_vars

\* the filters, dates and numbers the queries are called with
Filters ==
    {[field |-> "norad_id", value |-> N25544], [field |-> "cospar_id", value |-> C2017],
     [field |-> "name", value |-> OBJ], [field |-> "name", value |-> XMM]}

Dates == 0..(MaxEpoch + 1)

OptDates == {{}} \cup {{d} : d \in 1..MaxEpoch}

OptNumbers == {{}, {1}}

FindTexts == {<<"i", "s">>, OBJ, N25544, EpochStr(1), XMM}

NextStore ==
    \/ \E tles \in SingleTexts : Insert(tles)
    \/ \E limit \in {"before", "after"}, date \in Dates, f \in Filters :
            GetDated(limit, date, f.field, f.value)
    \/ \E f \in Filters, number \in OptNumbers, start \in OptDates, stop \in OptDates :
            History(f.field, f.value, number, start, stop)
    \/ \E all \in BOOLEAN : Dump(all)
    \/ \E txt \in FindTexts : Find(txt)

SpecStore == Init /\ [][NextStore]_vars


\* the requests on the tle source that are resolved
Selections ==
    {[selector |-> "norad_id", value |-> N25544], [selector |-> "cospar_id", value |-> C2017],
     [selector |-> "name", value |-> OBJ], [selector |-> "name", value |-> ISS],
     [selector |-> "name", value |-> XMM]}

Request(sel, src, offset, limit, date) ==
    [selector |-> sel.selector, value |-> sel.value, src |-> src, offset |-> offset,
     limit |-> limit, date |-> date]

TleRequests ==
    {Request(sel, TLE, k, "any", {}) : sel \in Selections, k \in 0..MaxEpoch}
    \cup {Request(sel, TLE, 0, limit, {d}) :
            sel \in Selections, limit \in {"before", "after"}, d \in Dates}

NextResolve ==
    \/ \E tles \in SingleTexts : Insert(tles)
    \/ SyncTle
    \/ \E req \in TleRequests : FromRequest(req, FALSE, FALSE, TRUE)

SpecResolve == Init /\ [][NextResolve]_vars

\* the selectors given to Sat.from_selector, all on the tle source
SelectorTexts ==
    {ISS, XMM, OBJ \o <<"~">>, ISS \o <<"~", "~">>,
     <<"n", "o", "r", "a", "d", "=">> \o N25544,
     <<"n", "o", "r", "o", "d", "=">> \o N25544,
     <<"c", "o", "s", "p", "a", "r", "=">> \o C2017 \o <<"@">> \o TLE,
     ISS \o <<"?">> \o Day1, OBJ \o <<"^">> \o Day2Noon,
     ISS \o <<"?", "2", "0", "1", "8", "-">>}

NextSelect ==
    \/ \E tles \in SingleTexts : Insert(tles)
    \/ SyncTle
    \/ \E txt \in SelectorTexts : FromSelector(txt)

SpecSelect == Init /\ [][NextSelect]_vars

\* Greatest date of the orbits that are written in the archive.
MaxStamp == 2

\* the orbits given to CcsdsDb.insert: state vectors and ephemerides of the
\* station, one ephemeris of the other object, and a TLE, which is neither
Orbs ==
    {[type |-> "Ephem", date |-> d, content |-> c] : d \in 1..MaxStamp, c \in {"a", "b"}}
    \cup {[type |-> "Orbit", date |-> d, content |-> "a"] : d \in 1..MaxStamp}

InsertInputs ==
    {<<"1998-067A", orb>> : orb \in Orbs}
    \cup {<<"2017-083A", [type |-> "Ephem", date |-> 1, content |-> "a"]>>,
          <<"1998-067A", [type |-> "Tle", date |-> 1, content |-> "a"]>>}

\* the satellites and the requests CcsdsDb.get is called with
CcsdsRequest(src, offset, limit, date) ==
    Request([selector |-> "cospar_id", value |-> C1998], src, offset, limit, date)

GetInputs ==
    {<<"1998-067A", CcsdsRequest(src, k, "any", {})>> : src \in {OEM, OPM}, k \in 0..MaxStamp}
    \cup {<<"1998-067A", CcsdsRequest(OEM, 0, limit, {d})>> :
            limit \in {"before", "after"}, d \in 0..(MaxStamp + 1)}
    \cup {<<"2017-083A", CcsdsRequest(OEM, 0, "any", {})>>,
          <<"2017-083A", CcsdsRequest(OPM, 0, "before", {2})>>}

NextArchive ==
    \/ \E i \in InsertInputs, force \in BOOLEAN : CcsdsInsert(i[1], i[2], force)
    \/ \E i \in GetInputs : CcsdsGet(i[1], i[2])

SpecArchive == Init /\ [][NextArchive]_vars

\* the archive under the tag and purge commands: the ephemerides and one
\* state vector of the station and one ephemeris of the other object are
\* written, tagged and purged; the first ephemeris of the station is also
\* written by force with another content
TagInserts ==
    {<<"1998-067A", [type |-> "Ephem", date |-> d, content |-> "a"], FALSE>> : d \in 1..MaxStamp}
    \cup {<<"1998-067A", [type |-> "Orbit", date |-> 1, content |-> "a"], FALSE>>,
          <<"1998-067A", [type |-> "Ephem", date |-> 1, content |-> "b"], TRUE>>,
          <<"2017-083A", [type |-> "Ephem", date |-> 1, content |-> "a"], FALSE>>}

TagNames == {"ok", "best"}

TagInputs ==
    {CcsdsRequest(OEM, k, "any", {}) : k \in 0..(MaxStamp - 1)}
    \cup {CcsdsRequest(OPM, 0, "any", {})}

PurgeInputs ==
    {<<<<"1998-067A">>, ext, <<ans>>>> : ext \in {OEM, OPM}, ans \in BOOLEAN}
    \cup {<<<<"2017-083A", "1998-067A">>, OEM, <<a, b>>>> : a, b \in BOOLEAN}

NextTags ==
    \/ \E i \in TagInserts : CcsdsInsert(i[1], i[2], i[3])
    \/ \E req \in TagInputs, tag \in TagNames, force \in BOOLEAN :
            TagCmd("1998-067A", req, tag, force)
    \/ \E i \in PurgeInputs, until \in 1..(MaxStamp + 1) : Purge(i[1], i[2], until, i[3])

SpecTags == Init /\ [][NextTags]_vars

\* the tags of the station resolved through selectors: the station is
\* registered from its TLE, its ephemerides are archived and tagged, and
\* the alias ISS is resolved on the source named after a tag
ResolveTagNames == {"ok", "Ref"}

NextTagged ==
    \/ Insert(<<Tle(25544, 1)>>)
    \/ SyncTle
    \/ \E d \in 1..MaxStamp :
            CcsdsInsert("1998-067A", [type |-> "Ephem", date |-> d, content |-> "a"], FALSE)
    \/ \E k \in 0..(MaxStamp - 1), tag \in ResolveTagNames, force \in BOOLEAN :
            TagCmd("1998-067A", CcsdsRequest(OEM, k, "any", {}), tag, force)
    \/ \E tag \in ResolveTagNames \cup {"best"} :
            FromSelectorAt(ISS \o <<"@">> \o TagChars(tag))

SpecTagged == Init /\ [][NextTagged]_vars

\* the alias command: the station is registered from its first TLE, under
\* the name OBJ; aliases are given to its number, to its name, bare and
\* with its key, to the alias ISS, to its number with a source, and to a
\* name that is not registered; then the aliases are parsed
AliasNames == {ISS, <<"S", "T">>}

AliasSelectors ==
    {NoradKey \o <<"=">> \o N25544, NameKey \o <<"=">> \o OBJ, OBJ, ISS, XMM,
     NoradKey \o <<"=">> \o N25544 \o <<"@">> \o OEM}

NextAlias ==
    \/ Insert(<<Tle(25544, 1)>>)
    \/ SyncTle
    \/ \E name \in AliasNames, selector \in AliasSelectors, force \in BOOLEAN :
            AliasCmd(name, selector, force)
    \/ \E name \in AliasNames : FromTextOf(name)

SpecAlias == Init /\ [][NextAlias]_vars

\* the store and the archive under sync: 43013 is catalogued under the
\* launch 2017-083A in its first TLE and under 2017-083B afterwards; an
\* ephemeris of it and a state vector of the station are archived
Recatalogued(e) ==
    [norad_id |-> 43013, cospar_id |-> IF e > 1 THEN "2017-083B" ELSE "2017-083A",
     name |-> "OBJ", epoch |-> e]

SyncTles == {Recatalogued(e) : e \in 1..MaxEpoch} \cup {Tle(25544, 1)}

SyncOrbs ==
    {<<"2017-083A", [type |-> "Ephem", date |-> 1, content |-> "a", name |-> "OBJ"]>>,
     <<"1998-067A", [type |-> "Orbit", date |-> 1, content |-> "a", name |-> "ISS"]>>}

NextSync ==
    \/ \E tle \in SyncTles : Insert(<<tle>>)
    \/ \E i \in SyncOrbs : CcsdsInsert(i[1], i[2], FALSE)
    \/ \E source \in {"all", "tle", "ephem"} : Sync(source)

SpecSync == Init /\ [][NextSync]_vars

\* the registry under _from_request with its two flags: satellites are
\* registered from the latest TLEs, and every selection is resolved with
\* and without create and temporary
NextCreate ==
    \/ \E n \in NoradIds : Insert(<<Tle(n, MaxEpoch)>>)
    \/ SyncTle
    \/ \E sel \in Selections, create \in BOOLEAN, temporary \in BOOLEAN :
            FromRequest(Request(sel, TLE, 0, "any", {}), create, temporary, TRUE)

SpecCreate == Init /\ [][NextCreate]_vars

\* the store under texts that overlap: the first TLE of the station comes
\* under two names, OBJ and ISS, for one norad_id and one epoch
Renamed(tle) == [tle EXCEPT !.name = "ISS"]

OverlapTles == {Tle(25544, e) : e \in 1..MaxEpoch} \cup {Renamed(Tle(25544, 1))}

OverlapTexts == UNION {[1..k -> OverlapTles] : k \in 0..MaxTles}

NextOverlap == \E tles \in OverlapTexts : Insert(tles)

SpecOverlap == Init /\ [][NextOverlap]_vars

\* insert and sync statement by statement, on the store and the archive of
\* SpecSync
AtomicTles == {Recatalogued(1), Recatalogued(MaxEpoch), Tle(25544, 1)}

AtomicTexts == UNION {[1..k -> AtomicTles] : k \in 0..MaxTles}

NextAtomic ==
    \/ \E tles \in AtomicTexts : InsertBegin(tles)
    \/ InsertCheck
    \/ InsertMany
    \/ \E source \in {"all", "tle", "ephem"} : SyncBegin(source)
    \/ SyncSave
    \/ Commit
    \/ Interrupt
    \/ \E i \in SyncOrbs : procs = NoProcs /\ CcsdsInsert(i[1], i[2], FALSE)

SpecAtomic == Init /\ [][NextAtomic]_vars

\* the texts of the pages: a page holds one TLE at least and no
\* (norad_id, epoch) twice; two pages can hold the same TLE, and the first
\* TLE of the station under two names
PageTexts == {t \in OverlapTexts : Len(t) > 0 /\ \A i, j \in 1..Len(t) : i # j => Key(t[i]) # Key(t[j])}

NextFetch ==
    \/ \E texts \in [Pages -> PageTexts] : Fetch(texts)
    \/ \E p \in Pages : FetchFileCheck(p)
    \/ \E p \in Pages : FetchFileInsert(p)
    \/ FetchEnd

SpecFetch == Init /\ [][NextFetch]_vars

\* requests that carry a date and an offset, on the TLEs of the station and
\* on its ephemerides
DatedSelections ==
    {[selector |-> "norad_id", value |-> N25544], [selector |-> "name", value |-> ISS]}

DatedTleRequests ==
    {Request(sel, TLE, k, limit, {d}) :
        sel \in DatedSelections, k \in {1, MaxEpoch}, limit \in {"before", "after"},
        d \in 1..MaxEpoch}

DatedCcsdsRequests ==
    {CcsdsRequest(OEM, k, limit, {d}) :
        k \in {1, MaxStamp}, limit \in {"before", "after"}, d \in 0..(MaxStamp + 1)}

NextDated ==
    \/ \E e \in 1..MaxEpoch : Insert(<<Tle(25544, e)>>)
    \/ SyncTle
    \/ \E req \in DatedTleRequests : FromRequest(req, FALSE, FALSE, TRUE)
    \/ \E d \in 1..MaxStamp :
            CcsdsInsert("1998-067A", [type |-> "Ephem", date |-> d, content |-> "a"], FALSE)
    \/ \E req \in DatedCcsdsRequests : CcsdsGet("1998-067A", req)

SpecDated == Init /\ [][NextDated]_vars

\* Request.from_text is a function of the alias table, of the text and of
\* the overrides: they are drawn at the start and the call is made on them.

\* Greatest number of source, offset and date suffixes of a text.
MaxSuffixes == 2

ST == <<"S", "T">>
Eq == <<"=">>

\* the selectors the alias command has stored: the station by its catalog
\* number, ST by one of the keys, or by the name of another alias
AliasTables ==
    {{[name |-> ISS, selector |-> iss]} \cup st :
        iss \in {NoradIdEq \o N25544, NoradKey \o Eq \o N25544},
        st \in {{}} \cup {{[name |-> ST, selector |-> s]} :
                    s \in {NoradIdEq \o N43013, NoradKey \o Eq \o N43013,
                           CosparKey \o Eq \o C2017, CosparKey \o IdSuffix \o Eq \o C2017,
                           NameKey \o Eq \o OBJ, NameKey \o Eq \o ISS}}}

Heads ==
    {ISS, ST, XMM, NoradKey \o Eq \o N25544, NoradIdEq \o N25544,
     NameKey \o Eq \o ISS, CosparKey \o Eq \o C1998,
     <<"n", "o", "r", "o", "d">> \o Eq \o N25544,
     NameKey \o Eq \o ISS \o Eq \o N25544}

Suffixes ==
    {<<"@">> \o OEM, <<"@">> \o TLE, <<"@">>, <<"~">>, <<"~", "3">>, <<"~", "1", "2">>,
     <<"^">> \o Day1, <<"?">> \o Day2Noon, <<"?", "2", "0", "1", "8", "-">>}

RECURSIVE SuffixSeqs(_)
SuffixSeqs(n) ==
    IF n = 0 THEN {<<>>}
    ELSE SuffixSeqs(n - 1) \cup {a \o b : a \in SuffixSeqs(n - 1), b \in Suffixes}

InitParse ==
    /\ tledb = {}
    /\ sats = <<>>
    /\ aliases \in AliasTables
    /\ call \in {[txt |-> h \o s, kw |-> NoKw] : h \in Heads, s \in SuffixSeqs(MaxSuffixes)}
    /\ archive = NoArchive
    /\ procs = NoProcs
    /\ last = [op |-> "none"]

NextParse == FromText

SpecParse == InitParse /\ [][NextParse]_vars

\* the overrides: every set of keyword arguments, with the values of one of
\* two calls
Overrides ==
    {[selector |-> NoradKey, value |-> N43013, src |-> OEM, offset |-> 2,
      limit |-> "after", date |-> {2}],
     [selector |-> NameKey, value |-> ISS, src |-> OPM, offset |-> 0,
      limit |-> "before", date |-> {1}]}

Kws == {[k \in D |-> o[k]] : D \in SUBSET {"selector", "value", "src", "offset", "limit", "date"},
                             o \in Overrides}

OverrideTexts ==
    {ISS, XMM \o <<"~", "3", "@">> \o OEM \o <<"^">> \o Day1,
     NoradKey \o Eq \o N25544 \o <<"~", "~", "?">> \o Day2Noon,
     ST \o <<"@">> \o TLE \o <<"?", "2", "0", "1", "8", "-">>}

InitOverride ==
    /\ tledb = {}
    /\ sats = <<>>
    /\ aliases \in AliasTables
    /\ call \in [txt : OverrideTexts, kw : Kws]
    /\ archive = NoArchive
    /\ procs = NoProcs
    /\ last = [op |-> "none"]

NextOverride == FromText

SpecOverride == InitOverride /\ [][NextOverride]_vars

-----------------------------------------------------------------------------
(* Properties of the TLE store and of the resolution on the tle source *)

DistinctKeys(tles) ==
    \A i, j \in 1..Len(tles) : i # j => Key(tles[i]) # Key(tles[j])

\* C1: when insert is called a second time with the same non-empty text,
\* whose records have pairwise distinct (norad_id, epoch) keys, the second
\* call raises no error, reports 0 inserted records and leaves the store as
\* the first call left it.
C1_IdempotentInsert ==
    (last.op = "insert" /\ last.repeat /\ Len(last.text) > 0 /\ DistinctKeys(last.text))
        => (last.err = "none" /\ last.inserted = 0 /\ tledb = last.before)

C1_Witness ==
    /\ last.op = "insert" /\ last.repeat /\ Len(last.text) > 1
    /\ DistinctKeys(last.text)
    /\ Range(last.text) \subseteq tledb
    /\ tledb # Range(last.text)

\* the rows of the table that a filter selects
Selected(field, value) == {r \in tledb : Matches(r, field, value)}

Registered(req) ==
    \E i \in 1..Len(sats) : SatMatches(sats[i], req.selector, req.value)

\* C2: for a registered satellite whose TLEs have pairwise distinct epochs,
\* a tle request without date and of offset k gives the TLE that has
\* exactly k TLEs of later epoch when k is less than their number, and
\* NoDataError otherwise.
C2_OffsetSemantics ==
    (/\ last.op = "from_request" /\ last.withorb /\ ~last.create /\ ~last.temporary
     /\ last.req.limit = "any" /\ Registered(last.req)
     /\ \A r, q \in Selected(last.req.selector, last.req.value) :
            r # q => r.epoch # q.epoch)
        => LET hist == Selected(last.req.selector, last.req.value) IN
           IF last.req.offset < Cardinality(hist)
           THEN /\ last.err = "none"
                /\ \E r \in hist :
                     /\ last.orb = {r}
                     /\ Cardinality({q \in hist : q.epoch > r.epoch}) = last.req.offset
           ELSE last.err = "NoDataError" /\ last.orb = {}

C2_Witness ==
    /\ last.op = "from_request" /\ last.req.limit = "any" /\ last.req.offset = 1
    /\ last.err = "none"
    /\ Cardinality(Selected(last.req.selector, last.req.value)) = 2
    /\ \E r \in last.orb : \E q \in tledb : q.norad_id = r.norad_id /\ q.epoch > r.epoch

\* C3: get_dated gives, for "after", the matching TLE of least epoch among
\* those of epoch >= date, for "before" the one of greatest epoch among those
\* of epoch <= date; a matching TLE whose epoch is the date is the one given
\* in both cases.
C3_GetDatedInclusive ==
    last.op = "get_dated" =>
        LET sel == Selected(last.field, last.value)
            ok == {r \in sel : IF last.limit = "after" THEN r.epoch >= last.date
                                                       ELSE r.epoch <= last.date}
        IN  /\ ok # {} => last.err = "none"
            /\ last.err = "none" =>
                 \E r \in ok :
                    /\ last.out = {r}
                    /\ \A q \in ok : IF last.limit = "after" THEN r.epoch <= q.epoch
                                                             ELSE r.epoch >= q.epoch
            /\ (\E q \in sel : q.epoch = last.date) =>
                 (last.err = "none" /\ \A r \in last.out : r.epoch = last.date)

C3_Witness ==
    /\ last.op = "get_dated" /\ last.err = "none" /\ last.limit = "before"
    /\ \E r \in last.out : r.epoch = last.date
    /\ Cardinality(Selected(last.field, last.value)) > 1

\* C4 (as claimed): a date-limited tle request for a registered satellite
\* that no matching TLE satisfies ends with NoDataError.
C4_DatedMissIsNoData ==
    (/\ last.op = "from_request" /\ last.withorb /\ ~last.create /\ ~last.temporary
     /\ last.req.limit # "any" /\ Registered(last.req)
     /\ \A r \in Selected(last.req.selector, last.req.value) : \A d \in last.req.date :
            IF last.req.limit = "after" THEN r.epoch < d ELSE r.epoch > d)
        => last.err = "NoDataError"

InWindow(r, start, stop) ==
    (\A d \in start : r.epoch >= d) /\ (\A d \in stop : r.epoch <= d)

\* C5 (as claimed): history raises TleNotFound only when the filter matches
\* no row at all, and yields an empty sequence when rows match the filter
\* and none lies in the window.
C5_EmptyWindowYieldsNothing ==
    last.op = "history" =>
        LET sel == Selected(last.field, last.value) IN
        /\ last.err = "TleNotFound" <=> sel = {}
        /\ (sel # {} /\ \A r \in sel : ~InWindow(r, last.start, last.stop))
              => (last.err = "none" /\ last.out = <<>>)

\* C5 (amended): history raises TleNotFound exactly when no row matches the
\* filter and lies in the start/stop window, be it that the filter matches
\* nothing or that the window excludes every match; otherwise it yields a
\* non-empty sequence of the matching rows of the window.
C5_TleNotFoundIffNothingInWindow ==
    last.op = "history" =>
        LET sel == Selected(last.field, last.value)
            win == {r \in sel : InWindow(r, last.start, last.stop)}
        IN  /\ last.err = "TleNotFound" <=> win = {}
            /\ last.err = "TleNotFound" => last.out = <<>>
            /\ last.err = "none" => (last.out # <<>> /\ Range(last.out) \subseteq win)

C5_Witness ==
    /\ last.op = "history" /\ last.err = "TleNotFound"
    /\ Selected(last.field, last.value) # {}

\* C6 (as claimed): an insert whose text holds more than once a key that is
\* not stored yet raises no error, stores one row for that key and counts
\* it once.
C6_DuplicatesAbsorbed ==
    (/\ last.op = "insert"
     /\ \E i, j \in 1..Len(last.text) :
            /\ i # j /\ Key(last.text[i]) = Key(last.text[j])
            /\ ~\E r \in last.before : Key(r) = Key(last.text[i]))
        => /\ last.err = "none"
           /\ \A i \in 1..Len(last.text) :
                Cardinality({r \in tledb : Key(r) = Key(last.text[i])}) = 1
           /\ last.inserted =
                Cardinality({Key(last.text[i]) : i \in 1..Len(last.text)}
                            \ {Key(r) : r \in last.before})

Latest(rows) == {r \in rows : \A q \in rows : q.norad_id = r.norad_id => q.epoch <= r.epoch}

\* C7 (as claimed): dump(all=False) yields, for every norad_id of the store,
\* its row of greatest epoch and no other; find yields, for every norad_id
\* that has a matching row, its matching row of greatest epoch and no other.
C7_LatestPerObject ==
    /\ (last.op = "dump" /\ ~last.all) => last.out = Latest(tledb)
    /\ last.op = "find" =>
         last.out = Latest({r \in tledb : Contains(DataOf(r), last.txt)
                                          \/ Contains(Chars(r.name), last.txt)})

-----------------------------------------------------------------------------
(* Properties of Request.from_text *)

Parsed == last.op = "from_text" /\ last.err = "none"

TheReq == CHOOSE r \in last.req : TRUE

Tildes(txt) == {i \in 1..Len(txt) : txt[i] = "~"}

DigitFollows(txt) == {i \in Tildes(txt) : i < Len(txt) /\ txt[i + 1] \in Digits}

NoradOffsetOem == NoradKey \o Eq \o N25544 \o <<"~", "3", "@">> \o OEM

\* C8: without an offset override, the offset of the Request is 0 when the
\* text has no "~", the number of "~" when no "~" is followed by a digit, and
\* N when the only "~" is followed by the decimal number N;
\* "norad=25544~3@oem" gives norad_id, 25544, offset 3, oem, any.
C8_OffsetGrammar ==
    (Parsed /\ ~Has(last.kw, "offset")) =>
        LET txt == last.txt
            n == Cardinality(Tildes(txt))
        IN  /\ n = 0 => TheReq.offset = 0
            /\ (n > 0 /\ DigitFollows(txt) = {}) => TheReq.offset = n
            /\ (n = 1 /\ DigitFollows(txt) # {}) =>
                 TheReq.offset =
                    IntOf(RunFrom(txt, (CHOOSE i \in Tildes(txt) : TRUE) + 1, Digits))
            /\ txt = NoradOffsetOem =>
                 TheReq = [selector |-> "norad_id", value |-> N25544, src |-> OEM,
                           offset |-> 3, limit |-> "any", date |-> {}]

C8_Witness ==
    /\ Parsed /\ last.txt = NoradOffsetOem /\ last.kw = NoKw
    /\ TheReq.offset = 3

\* the calls whose text is an alias followed by suffixes, the alias being
\* stored for a pair key=value
AliasCalls ==
    {a \in aliases :
        /\ last.op = "from_text" /\ last.kw = NoKw
        /\ SelectorStr(last.txt) = a.name
        /\ Len(SplitEq(a.selector)) = 2
        /\ WithId(SplitEq(a.selector)[1]) \in Keys}

SuffixOf(a) == SubSeq(last.txt, Len(a.name) + 1, Len(last.txt))

\* what from_text gives for the stored pair followed by the same suffixes
Spelled(a) == FromTextOutcome(aliases, a.selector \o SuffixOf(a), NoKw)

Substituted(a) ==
    Parsed => /\ TheReq.selector = KeyName(WithId(SplitEq(a.selector)[1]))
              /\ TheReq.value = SplitEq(a.selector)[2]

Chained(a) ==
    SplitEq(a.selector)[1] = NameKey /\ AliasRows(aliases, SplitEq(a.selector)[2]) # {}

\* C9 (as claimed): for an alias A stored for key=value, from_text(A + suffix)
\* and from_text("key=value" + suffix) give the same Request, and the value
\* of the alias is not looked up again.
C9_AliasEquivalence ==
    \A a \in AliasCalls :
        /\ Spelled(a) = [err |-> last.err, req |-> last.req]
        /\ Substituted(a)

\* C9 (amended): from_text(A + suffix) gives the key and the value stored for
\* A, not looked up again; it gives the same Request as
\* from_text("key=value" + suffix) unless the key is name and the value is
\* itself the name of an alias.
C9_AliasEquivalenceUnlessChained ==
    \A a \in AliasCalls :
        /\ ~Chained(a) => Spelled(a) = [err |-> last.err, req |-> last.req]
        /\ Substituted(a)

C9_Witness ==
    \E a \in AliasCalls :
        /\ Parsed /\ a.name = ST /\ a.selector = CosparKey \o Eq \o C2017
        /\ Len(SuffixOf(a)) > 0
        /\ TheReq.selector = "cospar_id"

Selection(kw) == <<KeyName(WithId(kw["selector"])), kw["value"]>>

Without(kw, k) == [x \in DOMAIN kw \ {k} |-> kw[x]]

Alone(kw, k, partner) == Has(kw, k) /\ ~Has(kw, partner)

Ignored(k) ==
    FromTextOutcome(aliases, last.txt, Without(last.kw, k)) = [err |-> last.err, req |-> last.req]

\* C10 (as claimed): every field passed as an override is the field of the
\* Request, whichever other overrides are passed.
C10_OverridePrecedence ==
    Parsed =>
        /\ \A k \in DOMAIN last.kw \ {"selector", "value"} : TheReq[k] = last.kw[k]
        /\ Has(last.kw, "selector") => TheReq.selector = KeyName(WithId(last.kw["selector"]))
        /\ Has(last.kw, "value") => TheReq.value = last.kw["value"]

\* C10 (amended): src and offset passed as overrides are those of the
\* Request; selector and value replace those of the text when both are
\* passed, before the alias lookup, and limit and date when both are passed;
\* a selector, value, limit or date passed without its partner is ignored.
C10_OverridePairs ==
    last.op = "from_text" =>
        LET kw == last.kw IN
        /\ Parsed =>
            /\ \A k \in DOMAIN kw \cap {"src", "offset"} : TheReq[k] = kw[k]
            /\ (Has(kw, "limit") /\ Has(kw, "date")) =>
                    TheReq.limit = kw["limit"] /\ TheReq.date = kw["date"]
            /\ (Has(kw, "selector") /\ Has(kw, "value")) =>
                    IF kw["selector"] = NameKey /\ AliasRows(aliases, kw["value"]) # {}
                    THEN \E a \in AliasRows(aliases, kw["value"]) :
                            /\ TheReq.selector = KeyName(WithId(SplitEq(a.selector)[1]))
                            /\ TheReq.value = SplitEq(a.selector)[2]
                    ELSE <<TheReq.selector, TheReq.value>> = Selection(kw)
        /\ Alone(kw, "selector", "value") => Ignored("selector")
        /\ Alone(kw, "value", "selector") => Ignored("value")
        /\ Alone(kw, "limit", "date") => Ignored("limit")
        /\ Alone(kw, "date", "limit") => Ignored("date")

C10_Witness ==
    /\ Parsed
    /\ DOMAIN last.kw = {"selector", "value", "src", "offset", "limit", "date"}
    /\ last.kw["selector"] = NoradKey
    /\ SelectorStr(last.txt) = XMM
    /\ TheReq.selector = "norad_id" /\ TheReq.src = OEM /\ TheReq.limit = "after"

\* C11 (as claimed): the text form of a Request that from_text gave is parsed
\* by from_text into a Request of the same selector, value, src, offset,
\* limit and date, whatever the alias table.
C11_RoundTrip ==
    (Parsed /\ last.kw = NoKw) =>
        FromTextOutcome(aliases, ToText(TheReq), NoKw) = [err |-> "none", req |-> last.req]

-----------------------------------------------------------------------------
(* Properties of Sat.from_selector *)

ParsedReq == FromTextOutcome(aliases, last.txt, NoKw)

\* no TLE of the object satisfies the offset or the date of the request
NoRecord(req) ==
    LET sel == Selected(req.selector, req.value) IN
    IF req.limit = "any" THEN Cardinality(sel) <= req.offset
    ELSE \A r \in sel : \A d \in req.date :
            IF req.limit = "after" THEN r.epoch < d ELSE r.epoch > d

\* C12 (as claimed): from_selector fails with the parse error of from_text
\* on a malformed selector, with a not-found error of another type when the
\* selector matches no registry row, and with NoDataError, of another type
\* again, when the satellite is registered and has no record for the
\* request.
C12_ErrorTaxonomy ==
    last.op = "from_selector" =>
        /\ ParsedReq.err # "none" =>
                last.err = "ValueError" /\ last.raised = "from_text"
        /\ \A req \in ParsedReq.req :
            /\ ~Registered(req) =>
                    /\ last.raised = "_from_request"
                    /\ last.err \notin {"none", "ValueError", "NoDataError"}
            /\ (Registered(req) /\ NoRecord(req)) => last.err = "NoDataError"

-----------------------------------------------------------------------------
(* Properties of the CCSDS archive *)

\* the files of a satellite that hold an orbit of the type of an extension
FilesOf(arch, cospar, ext) == {f \in arch.files : f.folder = cospar /\ ExtOf(f.orb) = ext}

\* C13: a request without date and of offset k gives the file of the folder
\* and of the extension that has exactly k files of later date when k is less
\* than the number of files, whatever the order of their insertion; otherwise
\* get raises ValueError and the resolver reports NoDataError.
C13_ArchiveOffset ==
    (last.op = "ccsds_get" /\ last.req.date = {}) =>
        LET files == FilesOf(archive, last.cospar, last.req.src) IN
        IF last.req.offset < Cardinality(files)
        THEN /\ last.err = "none" /\ last.reported = "none"
             /\ \E f \in files :
                    /\ last.out = {f}
                    /\ Cardinality({g \in files : g.orb.date > f.orb.date}) = last.req.offset
        ELSE last.err = "ValueError" /\ last.reported = "NoDataError" /\ last.out = {}

C13_Witness ==
    /\ last.op = "ccsds_get" /\ last.req.date = {} /\ last.req.offset = 1
    /\ last.err = "none"
    /\ \E f \in last.out : f.orb.date = 1
    /\ Cardinality(FilesOf(archive, last.cospar, last.req.src)) = 2

\* C14: a request with a date gives, for "before", the file of latest date
\* among those of date strictly before the date, for "after" the file of
\* earliest date among those strictly after; a file of that very date is
\* never given, and get raises ValueError when no file satisfies the
\* comparison.
C14_ArchiveDatedStrict ==
    (last.op = "ccsds_get" /\ last.req.date # {}) =>
        LET d == CHOOSE x \in last.req.date : TRUE
            files == FilesOf(archive, last.cospar, last.req.src)
            ok == {f \in files : IF last.req.limit = "before" THEN f.orb.date < d
                                                               ELSE f.orb.date > d}
        IN  /\ \A f \in last.out : f.orb.date # d
            /\ IF ok = {} THEN last.err = "ValueError" /\ last.out = {}
               ELSE /\ last.err = "none"
                    /\ \E f \in ok :
                         /\ last.out = {f}
                         /\ \A g \in ok : IF last.req.limit = "before"
                                           THEN g.orb.date <= f.orb.date
                                           ELSE g.orb.date >= f.orb.date

C14_Witness ==
    /\ last.op = "ccsds_get" /\ last.req.limit = "before" /\ last.req.date = {2}
    /\ \E f \in FilesOf(archive, last.cospar, last.req.src) : f.orb.date = 2
    /\ \E f \in last.out : f.orb.date = 1

\* C15: insert without force on an existing file name raises FileExistsError
\* and leaves every file as it was; with force it raises nothing and the
\* file holds the new orbit; when no file has the name, that one file is
\* created; in the last two cases no other file changes.
C15_InsertCollision ==
    (last.op = "ccsds_insert" /\ last.orb.type \in {"Orbit", "Ephem"}) =>
        LET name == FileName(last.cospar, last.orb.date, ExtOf(last.orb))
            same(f) == f.folder = last.cospar /\ f.name = name
            new == [folder |-> last.cospar, name |-> name, orb |-> last.orb]
        IN  IF (\E f \in last.before.files : same(f)) /\ ~last.force
            THEN last.err = "FileExistsError" /\ archive.files = last.before.files
            ELSE /\ last.err = "none"
                 /\ {f \in archive.files : same(f)} = {new}
                 /\ {f \in archive.files : ~same(f)} = {f \in last.before.files : ~same(f)}

C15_Witness ==
    /\ last.op = "ccsds_insert" /\ last.force /\ last.err = "none"
    /\ \E f \in last.before.files :
            /\ f.folder = last.cospar /\ f.orb # last.orb
            /\ f.name = FileName(last.cospar, last.orb.date, ExtOf(last.orb))
    /\ Cardinality(archive.files) > 1

-----------------------------------------------------------------------------
(* Properties of the tags of the archive *)

TagsOf(tags, cospar, tag) == {t \in tags : t.folder = cospar /\ t.tag = tag}

\* C16: CcsdsDb.tag(sat, name, force=False) raises ValueError when the tag
\* is bound to a different file than the one loaded, and the tag index is
\* left as it was; with force the tag is bound to the loaded file only, and
\* every other tag keeps the file it was bound to.
C16_TagConflict ==
    (last.op = "tag" /\ last.file # {}) =>
        LET f == CHOOSE x \in last.file : TRUE
            bound == TagsOf(last.before.tags, last.cospar, last.tag)
        IN  /\ (~last.force /\ \E t \in bound : t.name # f.name) =>
                    /\ last.err = "ValueError"
                    /\ archive = last.before
            /\ (last.force /\ bound # {}) =>
                    /\ last.err = "none"
                    /\ TagsOf(archive.tags, last.cospar, last.tag)
                            = {[folder |-> last.cospar, tag |-> last.tag, name |-> f.name]}
                    /\ archive.tags \ TagsOf(archive.tags, last.cospar, last.tag)
                            = last.before.tags \ bound
                    /\ archive.files = last.before.files

\* a tag bound to an ephemeris is put by force on another one, while
\* another tag is bound as well
C16_Witness ==
    /\ last.op = "tag" /\ last.force /\ last.err = "none"
    /\ \E t \in TagsOf(last.before.tags, last.cospar, last.tag) :
            \E f \in last.file : t.name # f.name
    /\ \E t \in archive.tags : t.tag # last.tag

\* C17: purge never deletes a file that bears a tag, of whatever type and
\* under however many tags; once the deletion is confirmed for a
\* satellite, every file of the purged extension in its folder that is
\* older than the cutoff and bears no tag is deleted; no file that is not
\* older than the cutoff is deleted.
C17_TagProtection ==
    last.op = "purge" =>
        \A f \in last.before.files :
            /\ (\E t \in last.before.tags : t.folder = f.folder /\ t.name = f.name) =>
                    f \in archive.files
            /\ f.orb.date >= last.until => f \in archive.files
            /\ ( /\ f.folder \in last.confirmed
                 /\ ExtOf(f.orb) = last.ext
                 /\ f.orb.date < last.until
                 /\ ~\E t \in last.before.tags : t.folder = f.folder /\ t.name = f.name )
                    => f \notin archive.files

\* a confirmed purge deletes an old ephemeris and spares another old one
\* that bears two tags
C17_Witness ==
    /\ last.op = "purge" /\ last.confirmed # {}
    /\ \E f \in last.before.files : f.orb.date < last.until /\ f \notin archive.files
    /\ \E f \in archive.files :
            /\ f.orb.date < last.until /\ ExtOf(f.orb) = last.ext
            /\ Cardinality({t \in last.before.tags :
                                t.folder = f.folder /\ t.name = f.name}) = 2

-----------------------------------------------------------------------------
(* Properties of sync *)

NoradsOf(db) == {r.norad_id : r \in db}

LatestOf(db, n) == CHOOSE r \in db : r.norad_id = n /\ \A q \in db : q.norad_id = n => q.epoch <= r.epoch

\* C18: after sync("tle"), every norad_id of the TLE store has a row of the
\* registry that bears the name and the cospar_id of its most recent TLE,
\* and the rows whose norad_id is not in the TLE store are as they were.
C18_Reconciliation ==
    (last.op = "sync" /\ last.source = "tle") =>
        /\ \A n \in NoradsOf(tledb) :
                \E i \in 1..Len(sats) :
                    /\ sats[i].norad_id = n
                    /\ sats[i].name = LatestOf(tledb, n).name
                    /\ sats[i].cospar_id = LatestOf(tledb, n).cospar_id
        /\ \A i \in 1..Len(last.before) :
                last.before[i].norad_id \notin NoradsOf(tledb) => sats[i] = last.before[i]

\* C19: sync is idempotent for each source: a second run in a row, the
\* stores being the same and dump() giving it the same TLEs, leaves the
\* registry as the first run left it.
C19_SyncIdempotent ==
    (last.op = "sync" /\ last.again) => sats = last.before

-----------------------------------------------------------------------------
(* Properties of the flags of Sat._from_request *)

Matching(reg, req) == {i \in 1..Len(reg) : SatMatches(reg[i], req.selector, req.value)}

\* C20: when no row of the registry matches the selector and value of the
\* request, _from_request fails and leaves the registry as it is without
\* create and temporary, returns a Sat and leaves the registry as it is with
\* temporary, and with create returns a Sat, exactly one row that matches
\* the selector and value being added, for each of the three selectors;
\* when a row matches, no row is added or changed, whatever the flags.
C20_ResolveUnmatched ==
    last.op = "from_request" =>
        LET unmatched == Matching(last.before, last.req) = {} IN
        /\ (unmatched /\ ~last.create /\ ~last.temporary) =>
                last.err # "none" /\ last.sat = {} /\ sats = last.before
        /\ (unmatched /\ last.temporary /\ ~last.create) =>
                last.err = "none" /\ last.sat # {} /\ sats = last.before
        /\ (unmatched /\ last.create) =>
                /\ last.err = "none" /\ last.sat # {}
                /\ Len(sats) = Len(last.before) + 1
                /\ SubSeq(sats, 1, Len(last.before)) = last.before
                /\ SatMatches(sats[Len(sats)], last.req.selector, last.req.value)
        /\ ~unmatched => sats = last.before

-----------------------------------------------------------------------------
(* Invariants of the stores *)

\* C21: in every state reached by insert calls, failed ones and ones on
\* overlapping texts included, no two stored records have the same
\* (norad_id, epoch), and the call that was made last neither removed nor
\* modified a record that was stored before it.
C21_UniqueKeys ==
    /\ \A r, q \in tledb : Key(r) = Key(q) => r = q
    /\ last.op = "insert" => last.before \subseteq tledb

\* an insert adds a record from a text that also holds, under another
\* name, a record whose key is stored
C21_Witness ==
    /\ last.op = "insert" /\ last.err = "none" /\ last.inserted > 0
    /\ \E i \in 1..Len(last.text) :
            last.text[i] \notin tledb /\ Stored(last.before, last.text[i])

\* C22: in every state reached by TLE inserts, archive inserts and sync
\* calls, no two rows of the registry bear the same cospar_id and no two
\* bear the same norad_id, NULL left aside.
C22_OneRowPerObject ==
    \A i, j \in 1..Len(sats) :
        i # j => /\ sats[i].cospar_id = sats[j].cospar_id => sats[i].cospar_id = NullStr
                 /\ sats[i].norad_id = sats[j].norad_id => sats[i].norad_id = NullId

\* C23: in every state reached by archive inserts, tag and purge
\* operations, forced or not, every tag of the tag index of a folder is
\* bound to exactly one file, and that file exists in the folder.
C23_TagIndex ==
    \A t \in archive.tags :
        /\ Cardinality(TagsOf(archive.tags, t.folder, t.tag)) = 1
        /\ \E f \in archive.files : f.folder = t.folder /\ f.name = t.name

\* a forced insert has written over a file that bears a tag, while another
\* tag is bound to another file
C23_Witness ==
    /\ last.op = "ccsds_insert" /\ last.force /\ last.err = "none"
    /\ \E f \in last.before.files :
            /\ f.folder = last.cospar /\ f \notin archive.files
            /\ \E t \in archive.tags : t.folder = f.folder /\ t.name = f.name
    /\ \E t, u \in archive.tags : t.name # u.name

-----------------------------------------------------------------------------
(* Atomicity of the batches *)

\* the table a transaction writes
TableOf(kind) == IF kind = "insert" THEN tledb ELSE sats

\* the TLEs of a text that have no row in the store
GenuinelyNew(db, tles) == {tles[i] : i \in {j \in 1..Len(tles) : ~Stored(db, tles[j])}}

\* C24: TleDb.insert either adds all the genuinely new records of its text
\* or, when it fails at any point, leaves the store as it was before the
\* call; sync either saves all its new and updated rows or none; while a
\* batch is under way the table read from outside is the one of before
\* the call.
C24_BatchAtomicity ==
    /\ procs # NoProcs => TableOf(procs.op) = procs.before
    /\ last.op = "rollback" => TableOf(last.kind) = last.before
    /\ (last.op = "commit" /\ last.kind = "insert") =>
            tledb = last.before \cup GenuinelyNew(last.before, last.text)
    /\ (last.op = "commit" /\ last.kind = "sync") => sats = last.target

\* a sync is interrupted after one row was saved and before another one is
C24_Witness ==
    /\ last.op = "rollback" /\ last.kind = "sync"
    /\ last.saved > 0 /\ last.left > 0

-----------------------------------------------------------------------------
(* Concurrent fetch *)

Fetching == procs # NoProcs /\ procs.op = "fetch"

Downloaded == UNION {Range(procs.tasks[p].text) : p \in Pages}

\* C25: while the pages are fetched by concurrent tasks, whatever the order
\* in which the responses complete, at most one task is between the lookup
\* loop and the insert_many of its insert, no insert fails, and when all
\* the tasks have ended the store holds the records it held before and
\* exactly one record for each (norad_id, epoch) of the downloaded texts.
C25_ConcurrentFetch ==
    Fetching =>
        /\ Cardinality(procs.running) <= 1
        /\ \A p \in Pages : procs.tasks[p].pc \in {"awaiting", "checked", "done"}
        /\ (\A p \in Pages : procs.tasks[p].pc = "done") =>
                /\ procs.before \subseteq tledb
                /\ tledb \subseteq procs.before \cup Downloaded
                /\ \A t \in Downloaded :
                        Cardinality({r \in tledb : Key(r) = Key(t)}) = 1

\* two pages that hold the same (norad_id, epoch) under two names have
\* been inserted, the second page adding a record of its own
C25_Witness ==
    /\ Fetching /\ \A p \in Pages : procs.tasks[p].pc = "done"
    /\ \E t \in Downloaded : t \notin tledb
    /\ \A p \in Pages : Range(procs.tasks[p].text) \cap (tledb \ procs.before) # {}

-----------------------------------------------------------------------------
(* Requests with a date and an offset *)

DateOf(req) == CHOOSE d \in req.date : TRUE

\* C26: a request with an offset above 0 and a date limit is resolved by
\* the date: on the tle source the orbit is the first TLE of the date
\* limited query and an error is raised when that query is empty; on the
\* oem and opm sources the outcome is the one of the same request with
\* offset 0; in neither case does the offset count.
C26_DateOverOffset ==
    /\ ( /\ last.op = "from_request" /\ last.withorb
         /\ last.req.limit # "any" /\ last.req.offset > 0 /\ Registered(last.req) ) =>
            LET rows == DatedRows(tledb, last.req.limit, DateOf(last.req),
                                  last.req.selector, last.req.value)
            IN  IF rows = {} THEN last.err # "none" /\ last.orb = {}
                ELSE /\ last.err = "none" /\ last.orb # {}
                     /\ last.orb \subseteq DatedFirst(rows, last.req.limit)
    /\ (last.op = "ccsds_get" /\ last.req.date # {} /\ last.req.offset > 0) =>
            LET files == FilesOf(archive, last.cospar, last.req.src)
                hits == {f \in files : IF last.req.limit = "before"
                                       THEN f.orb.date < DateOf(last.req)
                                       ELSE f.orb.date > DateOf(last.req)}
            IN  IF hits = {} THEN last.err = "ValueError" /\ last.out = {}
                ELSE /\ last.err = "none"
                     /\ \E f \in hits :
                            /\ last.out = {f}
                            /\ \A g \in hits : IF last.req.limit = "before"
                                               THEN g.orb.date <= f.orb.date
                                               ELSE g.orb.date >= f.orb.date

\* a TLE and an ephemeris are found by their date under an offset that no
\* record reaches
C26_Witness ==
    \/ /\ last.op = "from_request" /\ last.req.limit # "any" /\ last.err = "none"
       /\ last.req.offset >= Cardinality(tledb) /\ archive.files # {}
    \/ /\ last.op = "ccsds_get" /\ last.req.date # {} /\ last.err = "none"
       /\ last.req.offset >= Cardinality(archive.files) /\ tledb # {}

\* the tags that were bound to the file before the tag command bound
\* another one to it
OtherTagsOf(name) ==
    {t.tag : t \in {u \in last.before.tags :
                        u.folder = last.cospar /\ u.name = name /\ u.tag # last.tag}}

\* C27 as stated: when a tag is bound to a file that bears another tag,
\* rtags maps the file to the tag bound last, whatever the two names.
C27_LastWriterWins ==
    (last.op = "tag" /\ last.err = "none") =>
        \A f \in last.file :
            OtherTagsOf(f.name) # {} => RtagOf(archive, last.cospar, f.name) = {last.tag}

\* C27: when two tags are bound to one file, rtags maps the file to the
\* one of the two whose name is the greater, whichever was bound last.
C27_GreatestNameWins ==
    (last.op = "tag" /\ last.err = "none") =>
        \A f \in last.file :
            \A u \in OtherTagsOf(f.name) :
                RtagOf(archive, last.cospar, f.name)
                    = {IF LexLess(TagChars(u), TagChars(last.tag)) THEN last.tag ELSE u}

\* the tag "best" is bound to a file that bears the tag "ok", and rtags
\* still gives "ok" for the file
C27_Witness ==
    /\ last.op = "tag" /\ last.err = "none" /\ last.tag = "best"
    /\ \E f \in last.file :
            /\ OtherTagsOf(f.name) = {"ok"}
            /\ RtagOf(archive, last.cospar, f.name) = {"ok"}

-----------------------------------------------------------------------------
(* The TLE of a resolved satellite *)

\* the selections that designate a row of the registry
KeysOf(row) == {sel \in Selections : SatMatches(row, sel.selector, sel.value)}

\* C28: when a request on the tle source is resolved, by offset or by
\* date, the TLE returned bears the norad_id of the satellite returned, and
\* the same TLE is returned when the satellite is designated by another of
\* its keys.
C28_TleOfSatellite ==
    (last.op = "from_request" /\ last.withorb /\ last.err = "none") =>
        \A s \in last.sat, r \in last.orb :
            /\ r.norad_id = s.norad_id
            /\ \A sel \in KeysOf(s) :
                    \A o \in TleOrbOutcomes(tledb, [last.req EXCEPT !.selector = sel.selector,
                                                                    !.value = sel.value]) :
                        o.err = "none" /\ o.orb = last.orb

\* C29: a created tag is resolvable.  Once the station is registered, the
\* selector "ISS@t" of a tag t that the tag index of its folder holds
\* resolves without error to the file t is bound to, and the selector of a
\* name the tag index does not hold fails with NoDataError.
C29_TagResolvable ==
    (last.op = "from_selector_at" /\ Len(sats) > 0) =>
        \A tag \in ResolveTagNames \cup {"best"} :
            last.txt = ISS \o <<"@">> \o TagChars(tag) =>
                LET bound == TagsOf(archive.tags, "1998-067A", tag)
                IN  IF bound # {}
                    THEN /\ last.err = "none"
                         /\ \A t \in bound : \A o \in last.orb : o.name = t.name
                         /\ last.orb # {}
                    ELSE last.err = "NoDataError"

\* the tags in lower case letters and digits are resolved, and the names
\* that are not bound are not
C29_LowerCaseResolvable ==
    (last.op = "from_selector_at" /\ Len(sats) > 0 /\
     last.txt \in {ISS \o <<"@">> \o TagChars("ok"), ISS \o <<"@">> \o TagChars("best")}) =>
        C29_TagResolvable

C29_Witness ==
    /\ last.op = "from_selector_at"
    /\ last.txt = ISS \o <<"@">> \o TagChars("ok")
    /\ TagsOf(archive.tags, "1998-067A", "ok") # {}
    /\ last.err = "none"

C29_WitnessRef ==
    /\ last.op = "from_selector_at"
    /\ last.txt = ISS \o <<"@">> \o TagChars("Ref")
    /\ TagsOf(archive.tags, "1998-067A", "Ref") # {}
    /\ last.err = "NoDataError"

C29_WitnessAbsent ==
    /\ last.op = "from_selector_at"
    /\ last.txt = ISS \o <<"@">> \o TagChars("best")
    /\ Len(sats) > 0
    /\ last.err = "NoDataError"

\* the rows of the registry that a selector text designates
Designated(txt) == UNION {o.sat : o \in SatOfSelector(tledb, sats, aliases, txt)}

\* the aliases that hold a selector that designates a registered satellite
UsableOf(txt) == {a \in AliasRows(aliases, txt) : Designated(a.selector) # {}}

\* C30: a stored alias is usable.  When the alias table holds for the name
\* A a selector S that designates a registered satellite, from_text(A)
\* succeeds and its Request selects the rows that S designates.
C30_AliasUsable ==
    last.op = "from_text_of" =>
        \A a \in UsableOf(last.txt) :
            /\ last.err = "none"
            /\ \A r \in last.req :
                 {sats[i] : i \in {j \in 1..Len(sats) :
                                     SatMatches(sats[j], r.selector, r.value)}}
                 = Designated(a.selector)

\* the aliases of a selector written with its key and nothing else are
\* usable
C30_KeyedAliasUsable ==
    (last.op = "from_text_of" /\
     \A a \in AliasRows(aliases, last.txt) :
        a.selector \in {NoradKey \o <<"=">> \o N25544, NameKey \o <<"=">> \o OBJ,
                        NoradIdEq \o N25544}) =>
        C30_AliasUsable

C30_Witness ==
    /\ last.op = "from_text_of"
    /\ last.txt = <<"S", "T">>
    /\ UsableOf(last.txt) # {}
    /\ last.err = "none"

C30_WitnessBare ==
    /\ last.op = "from_text_of"
    /\ \E a \in UsableOf(last.txt) : a.selector = OBJ
    /\ last.err = "ValueError"

C30_WitnessAliasOfAlias ==
    /\ last.op = "from_text_of"
    /\ \E a \in UsableOf(last.txt) : a.selector = ISS /\ a.name # ISS
    /\ last.err = "ValueError"

C30_WitnessSource ==
    /\ last.op = "from_text_of"
    /\ \E a \in UsableOf(last.txt) : Len(a.selector) > 12
    /\ last.err = "none"

====
